---- MODULE Spec2Model ----
(***************************************************************************)
(* Browser discovery and metadata resolution of browserware:               *)
(* the known-browser registry, the Linux / macOS / Windows / fallback      *)
(* platform detectors and the orchestration layer of browserware-detect.   *)
(*                                                                         *)
(* Text is modelled by TLA+ strings; the string helpers below are the Rust *)
(* std operations the detectors call, computed character by character.     *)
(* Option<T> is modelled as a sequence: <<>> is None and <<v>> is Some(v). *)
(***************************************************************************)
EXTENDS Integers, Sequences, FiniteSets, TLC

\* ------------------------------------------------------------------------
\* Option<T>
\* ------------------------------------------------------------------------
None == <<>>

Some(v) == <<v>>

IsSome(o) == Len(o) = 1

IsNone(o) == Len(o) = 0

Unwrap(o) == o[1]

UnwrapOr(o, d) == IF IsSome(o) THEN o[1] ELSE d

\* ------------------------------------------------------------------------
\* str operations
\* ------------------------------------------------------------------------
CharAt(s, i) == SubSeq(s, i, i)

\* char::is_whitespace restricted to the characters the model's texts use
IsWhitespace(c) == c \in {" ", "\t", "\n", "\r"}

IsAsciiDigit(c) == c \in {"0", "1", "2", "3", "4", "5", "6", "7", "8", "9"}

StartsWith(s, p) == Len(s) >= Len(p) /\ SubSeq(s, 1, Len(p)) = p

EndsWith(s, p) == Len(s) >= Len(p) /\ SubSeq(s, Len(s) - Len(p) + 1, Len(s)) = p

\* str::find: the least index at which p occurs in s, 0 when it does not
Find(s, p) ==
    LET hits == {i \in 1..(Len(s) - Len(p) + 1) : SubSeq(s, i, i + Len(p) - 1) = p}
    IN IF hits = {} THEN 0 ELSE CHOOSE i \in hits : \A j \in hits : i <= j

\* str::rfind: the greatest index at which p occurs in s, 0 when it does not
RFind(s, p) ==
    LET hits == {i \in 1..(Len(s) - Len(p) + 1) : SubSeq(s, i, i + Len(p) - 1) = p}
    IN IF hits = {} THEN 0 ELSE CHOOSE i \in hits : \A j \in hits : i >= j

Contains(s, p) == Find(s, p) # 0

\* str::trim
Trim(s) ==
    LET keep == {i \in 1..Len(s) : ~IsWhitespace(CharAt(s, i))}
    IN IF keep = {} THEN ""
       ELSE SubSeq(s, CHOOSE i \in keep : \A j \in keep : i <= j,
                      CHOOSE i \in keep : \A j \in keep : i >= j)

\* str::strip_suffix(..).unwrap_or(s)
StripSuffixOr(s, suffix) ==
    IF EndsWith(s, suffix) THEN SubSeq(s, 1, Len(s) - Len(suffix)) ELSE s

\* str::split_once on a one-character delimiter
SplitOnce(s, d) ==
    LET i == Find(s, d)
    IN IF i = 0 THEN None
       ELSE Some(<<SubSeq(s, 1, i - 1), SubSeq(s, i + 1, Len(s))>>)

\* str::split on a one-character delimiter: every piece, empty ones included
RECURSIVE Split(_, _)
Split(s, d) ==
    LET i == Find(s, d)
    IN IF i = 0 THEN <<s>>
       ELSE <<SubSeq(s, 1, i - 1)>> \o Split(SubSeq(s, i + 1, Len(s)), d)

\* str::split(..).filter(|s| !s.is_empty()).collect()
SplitNonEmpty(s, d) == SelectSeq(Split(s, d), LAMBDA piece : piece # "")

\* str::split_whitespace
RECURSIVE SplitWhitespace(_)
SplitWhitespace(s) ==
    LET t == Trim(s)
        ws == {i \in 1..Len(t) : IsWhitespace(CharAt(t, i))}
        i == CHOOSE k \in ws : \A j \in ws : k <= j
    IN IF t = "" THEN <<>>
       ELSE IF ws = {} THEN <<t>>
       ELSE <<SubSeq(t, 1, i - 1)>> \o SplitWhitespace(SubSeq(t, i + 1, Len(t)))

\* slice::contains / Iterator::any over a sequence
SeqContains(seq, x) == \E i \in 1..Len(seq) : seq[i] = x

\* Iterator::find: the first element satisfying the predicate
FindFirst(seq, P(_)) ==
    LET hits == {i \in 1..Len(seq) : P(seq[i])}
    IN IF hits = {} THEN None
       ELSE Some(seq[CHOOSE i \in hits : \A j \in hits : i <= j])

\* Path::extension of a file name
PathExtension(name) ==
    LET i == RFind(name, ".")
    IN IF i <= 1 THEN None ELSE Some(SubSeq(name, i + 1, Len(name)))

\* Path::file_stem of a file name
PathFileStem(name) ==
    LET i == RFind(name, ".")
    IN IF name = "" THEN None
       ELSE IF i <= 1 THEN Some(name)
       ELSE Some(SubSeq(name, 1, i - 1))

\* ------------------------------------------------------------------------
\* Data model (browserware-types)
\* ------------------------------------------------------------------------
BrowserFamily == {"Chromium", "Firefox", "WebKit", "Other"}

ChromiumChannel == {"Stable", "Beta", "Dev", "Canary"}

FirefoxChannel == {"Stable", "Beta", "Dev", "Nightly", "Esr"}

WebKitChannel == {"Stable", "TechnologyPreview"}

\* BrowserVariant: a tagged union, [type, value] as in its serde layout
BrowserVariant ==
    [type : {"Chromium"}, value : ChromiumChannel]
        \cup [type : {"Firefox"}, value : FirefoxChannel]
        \cup [type : {"WebKit"}, value : WebKitChannel]
        \cup [type : {"Single"}, value : BrowserFamily]

\* family forgetting the family a Single variant carries
family_single_is_other(variant) ==
    CASE variant.type = "Chromium" -> "Chromium"
      [] variant.type = "Firefox" -> "Firefox"
      [] variant.type = "WebKit" -> "WebKit"
      [] variant.type = "Single" -> "Other"

\* BrowserVariant::family
family(variant) ==
    CASE variant.type = "Chromium" -> "Chromium"
      [] variant.type = "Firefox" -> "Firefox"
      [] variant.type = "WebKit" -> "WebKit"
      [] variant.type = "Single" -> variant.value

\* BrowserVariant::default(): Single(BrowserFamily::default()) = Single(Other)
DefaultVariant == [type |-> "Single", value |-> "Other"]

\* Browser::new
BrowserNew(id, name, executable) ==
    [id |-> id, name |-> name, variant |-> DefaultVariant, version |-> None,
     executable |-> executable, bundle_id |-> None]

\* Browser::with_variant
with_variant(b, variant) == [b EXCEPT !.variant = variant]

\* Browser::with_version
with_version(b, version) == [b EXCEPT !.version = Some(version)]

\* Browser::with_bundle_id
with_bundle_id(b, bundle_id) == [b EXCEPT !.bundle_id = Some(bundle_id)]

\* BrowserExt::maybe_with_version
maybe_with_version(b, version) ==
    IF IsSome(version) THEN with_version(b, Unwrap(version)) ELSE b

\* Browser::family
BrowserFamilyOf(b) == family(b.variant)

\* ------------------------------------------------------------------------
\* Interchange format (serde derives of browserware-types)
\* ------------------------------------------------------------------------
\* The enum a variant's payload belongs to
PayloadEnum(type) ==
    CASE type = "Chromium" -> ChromiumChannel
      [] type = "Firefox" -> FirefoxChannel
      [] type = "WebKit" -> WebKitChannel
      [] OTHER -> BrowserFamily

\* The serialized name of a unit variant: rename_all = "lowercase" for
\* ChromiumChannel, FirefoxChannel and BrowserFamily, "kebab-case" for
\* WebKitChannel
SerdeName(type, unit) ==
    CASE unit = "Stable" -> "stable"
      [] unit = "Beta" -> "beta"
      [] unit = "Dev" -> "dev"
      [] unit = "Canary" -> "canary"
      [] unit = "Nightly" -> "nightly"
      [] unit = "Esr" -> "esr"
      [] unit = "TechnologyPreview" ->
            IF type = "WebKit" THEN "technology-preview" ELSE "technologypreview"
      [] unit = "Chromium" -> "chromium"
      [] unit = "Firefox" -> "firefox"
      [] unit = "WebKit" -> "webkit"
      [] unit = "Other" -> "other"

\* Serialize for BrowserVariant: tag = "type", content = "value"
serialize_variant(v) == [type |-> v.type, value |-> SerdeName(v.type, v.value)]

\* Deserialize for BrowserVariant: None stands for Err
deserialize_variant(j) ==
    LET units == IF j.type \in {"Chromium", "Firefox", "WebKit", "Single"}
                 THEN {u \in PayloadEnum(j.type) : SerdeName(j.type, u) = j.value}
                 ELSE {}
    IN IF units = {} THEN None
       ELSE Some([type |-> j.type, value |-> CHOOSE u \in units : TRUE])

\* A string and null of the interchange format
JsonString(text) == [json |-> "string", text |-> text]

JsonNull == [json |-> "null", text |-> ""]

\* Serialize for Option<String>
serialize_option(o) == IF IsSome(o) THEN JsonString(Unwrap(o)) ELSE JsonNull

\* Serialize for Browser: bundle_id has skip_serializing_if = "Option::is_none"
serialize_browser(b) ==
    LET always == [k \in {"id", "name", "variant", "version", "executable"} |->
                      CASE k = "id" -> JsonString(b.id)
                        [] k = "name" -> JsonString(b.name)
                        [] k = "variant" -> serialize_variant(b.variant)
                        [] k = "version" -> serialize_option(b.version)
                        [] OTHER -> JsonString(b.executable)]
    IN IF IsSome(b.bundle_id)
       THEN always @@ ("bundle_id" :> JsonString(Unwrap(b.bundle_id)))
       ELSE always

\* Deserialize for an Option<String> field: a missing key and null give None
deserialize_option(j, key) ==
    IF key \notin DOMAIN j THEN None
    ELSE IF j[key].json = "null" THEN None
    ELSE Some(j[key].text)

\* deserialize_option with the key required
deserialize_option_required(j, key) ==
    IF j[key].json = "null" THEN None ELSE Some(j[key].text)

\* Deserialize for Browser where a missing bundle_id is an error
deserialize_browser_strict(j) ==
    LET variant == deserialize_variant(j["variant"])
    IN IF ~({"id", "name", "variant", "executable", "bundle_id"} \subseteq DOMAIN j) THEN None
       ELSE IF \E k \in {"id", "name", "executable"} : j[k].json # "string" THEN None
       ELSE IF IsNone(variant) THEN None
       ELSE Some([id |-> j["id"].text, name |-> j["name"].text,
                  variant |-> Unwrap(variant),
                  version |-> deserialize_option(j, "version"),
                  executable |-> j["executable"].text,
                  bundle_id |-> deserialize_option(j, "bundle_id")])

\* Deserialize for Browser: None stands for Err
deserialize_browser(j) ==
    LET variant == deserialize_variant(j["variant"])
    IN IF ~({"id", "name", "variant", "executable"} \subseteq DOMAIN j) THEN None
       ELSE IF \E k \in {"id", "name", "executable"} : j[k].json # "string" THEN None
       ELSE IF IsNone(variant) THEN None
       ELSE Some([id |-> j["id"].text, name |-> j["name"].text,
                  variant |-> Unwrap(variant),
                  version |-> deserialize_option(j, "version"),
                  executable |-> j["executable"].text,
                  bundle_id |-> deserialize_option(j, "bundle_id")])

\* ------------------------------------------------------------------------
\* Known-browser registry (browserware-detect/src/registry.rs)
\* ------------------------------------------------------------------------
KNOWN_BROWSERS == <<
    [id |-> "chrome", name |-> "Google Chrome",
     variant |-> [type |-> "Chromium", value |-> "Stable"],
     macos_bundle_ids |-> <<"com.google.Chrome">>,
     windows_registry_keys |-> <<"Google Chrome">>,
     linux_desktop_ids |-> <<"google-chrome", "google-chrome-stable">>],
    [id |-> "chrome-beta", name |-> "Google Chrome Beta",
     variant |-> [type |-> "Chromium", value |-> "Beta"],
     macos_bundle_ids |-> <<"com.google.Chrome.beta">>,
     windows_registry_keys |-> <<"Google Chrome Beta">>,
     linux_desktop_ids |-> <<"google-chrome-beta">>],
    [id |-> "chrome-dev", name |-> "Google Chrome Dev",
     variant |-> [type |-> "Chromium", value |-> "Dev"],
     macos_bundle_ids |-> <<"com.google.Chrome.dev">>,
     windows_registry_keys |-> <<"Google Chrome Dev">>,
     linux_desktop_ids |-> <<"google-chrome-unstable">>],
    [id |-> "chrome-canary", name |-> "Google Chrome Canary",
     variant |-> [type |-> "Chromium", value |-> "Canary"],
     macos_bundle_ids |-> <<"com.google.Chrome.canary">>,
     windows_registry_keys |-> <<"Google Chrome Canary">>,
     linux_desktop_ids |-> <<>>],
    [id |-> "edge", name |-> "Microsoft Edge",
     variant |-> [type |-> "Chromium", value |-> "Stable"],
     macos_bundle_ids |-> <<"com.microsoft.edgemac">>,
     windows_registry_keys |-> <<"Microsoft Edge">>,
     linux_desktop_ids |-> <<"microsoft-edge", "microsoft-edge-stable">>],
    [id |-> "edge-beta", name |-> "Microsoft Edge Beta",
     variant |-> [type |-> "Chromium", value |-> "Beta"],
     macos_bundle_ids |-> <<"com.microsoft.edgemac.Beta">>,
     windows_registry_keys |-> <<"Microsoft Edge Beta">>,
     linux_desktop_ids |-> <<"microsoft-edge-beta">>],
    [id |-> "edge-dev", name |-> "Microsoft Edge Dev",
     variant |-> [type |-> "Chromium", value |-> "Dev"],
     macos_bundle_ids |-> <<"com.microsoft.edgemac.Dev">>,
     windows_registry_keys |-> <<"Microsoft Edge Dev">>,
     linux_desktop_ids |-> <<"microsoft-edge-dev">>],
    [id |-> "edge-canary", name |-> "Microsoft Edge Canary",
     variant |-> [type |-> "Chromium", value |-> "Canary"],
     macos_bundle_ids |-> <<"com.microsoft.edgemac.Canary">>,
     windows_registry_keys |-> <<"Microsoft Edge Canary">>,
     linux_desktop_ids |-> <<>>],
    [id |-> "brave", name |-> "Brave Browser",
     variant |-> [type |-> "Chromium", value |-> "Stable"],
     macos_bundle_ids |-> <<"com.brave.Browser">>,
     windows_registry_keys |-> <<"BraveSoftware Brave-Browser">>,
     linux_desktop_ids |-> <<"brave-browser", "brave">>],
    [id |-> "brave-beta", name |-> "Brave Browser Beta",
     variant |-> [type |-> "Chromium", value |-> "Beta"],
     macos_bundle_ids |-> <<"com.brave.Browser.beta">>,
     windows_registry_keys |-> <<"BraveSoftware Brave-Browser-Beta">>,
     linux_desktop_ids |-> <<"brave-browser-beta">>],
    [id |-> "brave-nightly", name |-> "Brave Browser Nightly",
     variant |-> [type |-> "Chromium", value |-> "Canary"],
     macos_bundle_ids |-> <<"com.brave.Browser.nightly">>,
     windows_registry_keys |-> <<"BraveSoftware Brave-Browser-Nightly">>,
     linux_desktop_ids |-> <<"brave-browser-nightly">>],
    [id |-> "arc", name |-> "Arc",
     variant |-> [type |-> "Single", value |-> "Chromium"],
     macos_bundle_ids |-> <<"company.thebrowser.Browser">>,
     windows_registry_keys |-> <<"Arc">>,
     linux_desktop_ids |-> <<>>],
    [id |-> "vivaldi", name |-> "Vivaldi",
     variant |-> [type |-> "Chromium", value |-> "Stable"],
     macos_bundle_ids |-> <<"com.vivaldi.Vivaldi">>,
     windows_registry_keys |-> <<"Vivaldi">>,
     linux_desktop_ids |-> <<"vivaldi", "vivaldi-stable">>],
    [id |-> "vivaldi-snapshot", name |-> "Vivaldi Snapshot",
     variant |-> [type |-> "Chromium", value |-> "Dev"],
     macos_bundle_ids |-> <<"com.vivaldi.Vivaldi.snapshot">>,
     windows_registry_keys |-> <<"Vivaldi Snapshot">>,
     linux_desktop_ids |-> <<"vivaldi-snapshot">>],
    [id |-> "opera", name |-> "Opera",
     variant |-> [type |-> "Chromium", value |-> "Stable"],
     macos_bundle_ids |-> <<"com.operasoftware.Opera">>,
     windows_registry_keys |-> <<"Opera Stable">>,
     linux_desktop_ids |-> <<"opera">>],
    [id |-> "opera-beta", name |-> "Opera Beta",
     variant |-> [type |-> "Chromium", value |-> "Beta"],
     macos_bundle_ids |-> <<"com.operasoftware.OperaNext">>,
     windows_registry_keys |-> <<"Opera Beta">>,
     linux_desktop_ids |-> <<"opera-beta">>],
    [id |-> "opera-developer", name |-> "Opera Developer",
     variant |-> [type |-> "Chromium", value |-> "Dev"],
     macos_bundle_ids |-> <<"com.operasoftware.OperaDeveloper">>,
     windows_registry_keys |-> <<"Opera Developer">>,
     linux_desktop_ids |-> <<"opera-developer">>],
    [id |-> "opera-gx", name |-> "Opera GX",
     variant |-> [type |-> "Single", value |-> "Chromium"],
     macos_bundle_ids |-> <<"com.operasoftware.OperaGX">>,
     windows_registry_keys |-> <<"Opera GX Stable">>,
     linux_desktop_ids |-> <<>>],
    [id |-> "chromium", name |-> "Chromium",
     variant |-> [type |-> "Chromium", value |-> "Stable"],
     macos_bundle_ids |-> <<"org.chromium.Chromium">>,
     windows_registry_keys |-> <<"Chromium">>,
     linux_desktop_ids |-> <<"chromium", "chromium-browser">>],
    [id |-> "firefox", name |-> "Firefox",
     variant |-> [type |-> "Firefox", value |-> "Stable"],
     macos_bundle_ids |-> <<"org.mozilla.firefox">>,
     windows_registry_keys |-> <<"Firefox">>,
     linux_desktop_ids |-> <<"firefox">>],
    [id |-> "firefox-beta", name |-> "Firefox Beta",
     variant |-> [type |-> "Firefox", value |-> "Beta"],
     macos_bundle_ids |-> <<"org.mozilla.firefoxbeta">>,
     windows_registry_keys |-> <<"Firefox Beta">>,
     linux_desktop_ids |-> <<"firefox-beta">>],
    [id |-> "firefox-dev", name |-> "Firefox Developer Edition",
     variant |-> [type |-> "Firefox", value |-> "Dev"],
     macos_bundle_ids |-> <<"org.mozilla.firefoxdeveloperedition">>,
     windows_registry_keys |-> <<"Firefox Developer Edition">>,
     linux_desktop_ids |-> <<"firefox-developer-edition", "firefoxdeveloperedition">>],
    [id |-> "firefox-nightly", name |-> "Firefox Nightly",
     variant |-> [type |-> "Firefox", value |-> "Nightly"],
     macos_bundle_ids |-> <<"org.mozilla.nightly">>,
     windows_registry_keys |-> <<"Firefox Nightly">>,
     linux_desktop_ids |-> <<"firefox-nightly">>],
    [id |-> "firefox-esr", name |-> "Firefox ESR",
     variant |-> [type |-> "Firefox", value |-> "Esr"],
     macos_bundle_ids |-> <<"org.mozilla.firefoxesr">>,
     windows_registry_keys |-> <<"Firefox ESR">>,
     linux_desktop_ids |-> <<"firefox-esr">>],
    [id |-> "librewolf", name |-> "LibreWolf",
     variant |-> [type |-> "Single", value |-> "Firefox"],
     macos_bundle_ids |-> <<"io.gitlab.LibreWolf">>,
     windows_registry_keys |-> <<"LibreWolf">>,
     linux_desktop_ids |-> <<"librewolf", "io.gitlab.librewolf">>],
    [id |-> "waterfox", name |-> "Waterfox",
     variant |-> [type |-> "Single", value |-> "Firefox"],
     macos_bundle_ids |-> <<"net.waterfox.waterfox">>,
     windows_registry_keys |-> <<"Waterfox">>,
     linux_desktop_ids |-> <<"waterfox", "waterfox-current">>],
    [id |-> "floorp", name |-> "Floorp",
     variant |-> [type |-> "Single", value |-> "Firefox"],
     macos_bundle_ids |-> <<"one.ablaze.floorp">>,
     windows_registry_keys |-> <<"Floorp">>,
     linux_desktop_ids |-> <<"floorp", "one.ablaze.floorp">>],
    [id |-> "safari", name |-> "Safari",
     variant |-> [type |-> "WebKit", value |-> "Stable"],
     macos_bundle_ids |-> <<"com.apple.Safari">>,
     windows_registry_keys |-> <<>>,
     linux_desktop_ids |-> <<>>],
    [id |-> "safari-preview", name |-> "Safari Technology Preview",
     variant |-> [type |-> "WebKit", value |-> "TechnologyPreview"],
     macos_bundle_ids |-> <<"com.apple.SafariTechnologyPreview">>,
     windows_registry_keys |-> <<>>,
     linux_desktop_ids |-> <<>>],
    [id |-> "gnome-web", name |-> "GNOME Web",
     variant |-> [type |-> "Single", value |-> "WebKit"],
     macos_bundle_ids |-> <<>>,
     windows_registry_keys |-> <<>>,
     linux_desktop_ids |-> <<"org.gnome.Epiphany", "epiphany", "epiphany-browser">>]
>>

\* find_by_id accepting an entry whose id the key begins with
find_by_id_prefix(id) == FindFirst(KNOWN_BROWSERS, LAMBDA meta : StartsWith(id, meta.id))

\* registry::find_by_id
find_by_id(id) == FindFirst(KNOWN_BROWSERS, LAMBDA meta : meta.id = id)

\* find_by_bundle_id accepting an entry one of whose bundle ids begins with
\* the key
find_by_bundle_id_prefix(bundle_id) ==
    FindFirst(KNOWN_BROWSERS,
              LAMBDA meta : \E i \in 1..Len(meta.macos_bundle_ids) :
                                StartsWith(meta.macos_bundle_ids[i], bundle_id))

\* registry::find_by_bundle_id
find_by_bundle_id(bundle_id) ==
    FindFirst(KNOWN_BROWSERS, LAMBDA meta : SeqContains(meta.macos_bundle_ids, bundle_id))

\* registry::find_by_registry_key
find_by_registry_key(key) ==
    FindFirst(KNOWN_BROWSERS, LAMBDA meta : SeqContains(meta.windows_registry_keys, key))

\* find_by_desktop_id comparing the first desktop id of an entry only
find_by_desktop_id_first_only(desktop_id) ==
    FindFirst(KNOWN_BROWSERS,
              LAMBDA meta : /\ meta.linux_desktop_ids # <<>>
                            /\ meta.linux_desktop_ids[1] = desktop_id)

\* registry::find_by_desktop_id
find_by_desktop_id(desktop_id) ==
    FindFirst(KNOWN_BROWSERS, LAMBDA meta : SeqContains(meta.linux_desktop_ids, desktop_id))

\* ------------------------------------------------------------------------
\* Operating system as seen by the Linux detector
\* ------------------------------------------------------------------------
\* std::process::Output of a finished child, or the failure to start one
NotStarted == [started |-> FALSE, success |-> FALSE, stdout |-> ""]

Exited(success, stdout) == [started |-> TRUE, success |-> success, stdout |-> stdout]

\* The hosts the model runs the detector on.  "desktop": the utilities are
\* installed, and each browser answers --version in its own way; "minimal":
\* no child process can be started.
OsProfiles == {"desktop", "minimal"}

\* Command::new("which").arg(part).output()
WhichOutcome(p, part) ==
    CASE p = "minimal" -> NotStarted
      [] OTHER ->
            CASE part \in {"firefox", "librewolf"} -> Exited(TRUE, "/usr/bin/" \o part \o "\n")
              [] part = "-c" -> Exited(TRUE, " \n")
              [] OTHER -> Exited(FALSE, "")

\* Command::new(executable).arg("--version").output()
VersionOutcome(p, executable) ==
    CASE p = "minimal" -> NotStarted
      [] OTHER ->
            CASE executable = "/usr/bin/firefox" -> Exited(TRUE, "Mozilla Firefox 120.0\n")
              [] executable = "/usr/bin/google-chrome-stable" ->
                    Exited(TRUE, "Google Chrome 120.0.6099.109 \n")
              [] executable = "/opt/google/chrome/chrome" ->
                    Exited(TRUE, "\nChrome 121.0, built on Debian 12.4\n")
              [] executable = "/usr/bin/librewolf" -> Exited(TRUE, "LibreWolf\n")
              [] executable = "/opt/chrome/launcher" -> Exited(FALSE, "9.9")
              [] executable = "/usr/bin/flatpak" -> Exited(TRUE, "Flatpak 1.14.4\n")
              [] executable = "/usr/bin/snap" ->
                    Exited(TRUE, "snap    2.61.1\nsnapd   2.61.1\nseries  16\n")
              [] OTHER -> NotStarted

\* ------------------------------------------------------------------------
\* Linux detector: pure parts (platform/linux.rs)
\* ------------------------------------------------------------------------
\* DesktopEntry::default()
DesktopEntryDefault ==
    [name |-> None, exec |-> None, mime_types |-> <<>>, categories |-> <<>>]

\* is_browser taking every URL scheme handler for a web handler
is_browser_any_scheme(entry) ==
    LET handles_http ==
            \E i \in 1..Len(entry.mime_types) :
                \/ StartsWith(entry.mime_types[i], "x-scheme-handler/")
                \/ entry.mime_types[i] = "text/html"
        is_web_browser ==
            \E i \in 1..Len(entry.categories) : entry.categories[i] = "WebBrowser"
    IN handles_http \/ is_web_browser

\* DesktopEntry::is_browser
is_browser(entry) ==
    LET handles_http ==
            \E i \in 1..Len(entry.mime_types) :
                \/ entry.mime_types[i] = "x-scheme-handler/http"
                \/ entry.mime_types[i] = "x-scheme-handler/https"
                \/ entry.mime_types[i] = "text/html"
        is_web_browser ==
            \E i \in 1..Len(entry.categories) : entry.categories[i] = "WebBrowser"
    IN handles_http \/ is_web_browser

\* The line loop's body reading the keys of every section
ParseLineAnySection(st, raw) ==
    LET line == Trim(raw)
        kv == SplitOnce(line, "=")
        key == Unwrap(kv)[1]
        value == Unwrap(kv)[2]
    IN IF StartsWith(line, "[")
       THEN [st EXCEPT !.in_desktop_entry = (line = "[Desktop Entry]")]
       ELSE IF line = "" \/ StartsWith(line, "#") THEN st
       ELSE IF IsNone(kv) THEN st
       ELSE CASE key = "Name" -> [st EXCEPT !.entry.name = Some(value)]
              [] key = "Exec" -> [st EXCEPT !.entry.exec = Some(value)]
              [] key = "MimeType" ->
                    [st EXCEPT !.entry.mime_types = SplitNonEmpty(value, ";")]
              [] key = "Categories" ->
                    [st EXCEPT !.entry.categories = SplitNonEmpty(value, ";")]
              [] OTHER -> st

\* One iteration of the line loop of parse_desktop_file: st is
\* [entry, in_desktop_entry]
ParseLine(st, raw) ==
    LET line == Trim(raw)
        kv == SplitOnce(line, "=")
        key == Unwrap(kv)[1]
        value == Unwrap(kv)[2]
    IN IF StartsWith(line, "[")
       THEN [st EXCEPT !.in_desktop_entry = (line = "[Desktop Entry]")]
       ELSE IF ~st.in_desktop_entry THEN st
       ELSE IF line = "" \/ StartsWith(line, "#") THEN st
       ELSE IF IsNone(kv) THEN st
       ELSE CASE key = "Name" -> [st EXCEPT !.entry.name = Some(value)]
              [] key = "Exec" -> [st EXCEPT !.entry.exec = Some(value)]
              [] key = "MimeType" ->
                    [st EXCEPT !.entry.mime_types = SplitNonEmpty(value, ";")]
              [] key = "Categories" ->
                    [st EXCEPT !.entry.categories = SplitNonEmpty(value, ";")]
              [] OTHER -> st

RECURSIVE ParseLines(_, _)
ParseLines(st, lines) ==
    IF lines = <<>> THEN st ELSE ParseLines(ParseLine(st, Head(lines)), Tail(lines))

\* parse_desktop_file content with a name or an exec
parse_desktop_file_either(file) ==
    IF ~file.readable THEN None
    ELSE LET entry == ParseLines([entry |-> DesktopEntryDefault,
                                  in_desktop_entry |-> FALSE], file.lines).entry
         IN IF IsSome(entry.name) \/ IsSome(entry.exec) THEN Some(entry) ELSE None

\* parse_desktop_file: file is what the path holds, [readable, lines]
parse_desktop_file(file) ==
    IF ~file.readable THEN None
    ELSE LET entry == ParseLines([entry |-> DesktopEntryDefault,
                                  in_desktop_entry |-> FALSE], file.lines).entry
         IN IF IsSome(entry.name) /\ IsSome(entry.exec) THEN Some(entry) ELSE None

\* str::lines
Lines(s) ==
    LET pieces == Split(s, "\n")
        body == IF pieces[Len(pieces)] = "" THEN SubSeq(pieces, 1, Len(pieces) - 1)
                ELSE pieces
    IN [i \in 1..Len(body) |-> StripSuffixOr(body[i], "\r")]

\* The word left as it is, trailing punctuation included
TrimEndNothing(word) == word

\* str::trim_end_matches(|c| !c.is_ascii_digit() && c != '.')
TrimEndNonVersion(word) ==
    LET keep == {i \in 1..Len(word) : IsAsciiDigit(CharAt(word, i)) \/ CharAt(word, i) = "."}
    IN IF keep = {} THEN ""
       ELSE SubSeq(word, 1, CHOOSE i \in keep : \A j \in keep : i >= j)

\* parse_version_string: the inner loop over the words of one line
RECURSIVE VersionInWords(_)
VersionInWords(words) ==
    LET word == Head(words)
        version == TrimEndNonVersion(word)
    IN IF words = <<>> THEN None
       ELSE IF IsAsciiDigit(CharAt(word, 1)) /\ Contains(word, ".") /\ version # ""
       THEN Some(version)
       ELSE VersionInWords(Tail(words))

\* parse_version_string: the outer loop over the lines
RECURSIVE VersionInLines(_)
VersionInLines(lines) ==
    LET line == Trim(Head(lines))
        found == VersionInWords(SplitWhitespace(line))
    IN IF lines = <<>> THEN None
       ELSE IF line = "" THEN VersionInLines(Tail(lines))
       ELSE IF IsSome(found) THEN found
       ELSE VersionInLines(Tail(lines))

\* parse_version_string
parse_version_string(output) == VersionInLines(Lines(output))

\* extract_version
extract_version(p, executable) ==
    LET output == VersionOutcome(p, executable)
    IN IF executable = "" THEN None
       ELSE IF Contains(executable, "flatpak run") \/ StartsWith(executable, "/snap/bin/")
       THEN None
       ELSE IF ~output.started THEN None
       ELSE IF ~output.success THEN None
       ELSE parse_version_string(output.stdout)

\* parse_exec_to_path: the loop over parts from index i on
RECURSIVE ParseExecFrom(_, _, _)
ParseExecFrom(p, parts, i) ==
    LET part == parts[i]
        next(k) == IF i + k <= Len(parts) THEN Some(parts[i + k]) ELSE None
        which == WhichOutcome(p, part)
        resolved == Trim(which.stdout)
    IN IF i > Len(parts) THEN None
       ELSE IF StartsWith(part, "%") THEN ParseExecFrom(p, parts, i + 1)
       ELSE IF Contains(part, "=") THEN ParseExecFrom(p, parts, i + 1)
       ELSE IF part = "flatpak" /\ next(1) = Some("run")
       THEN IF IsSome(next(2)) THEN Some("/usr/bin/flatpak run " \o Unwrap(next(2)))
            ELSE Some("/usr/bin/flatpak")
       ELSE IF part = "snap" /\ next(1) = Some("run")
       THEN IF IsSome(next(2)) THEN Some("/snap/bin/" \o Unwrap(next(2)))
            ELSE Some("/usr/bin/snap")
       ELSE IF part \in {"env", "sh", "-c", "bash"} THEN ParseExecFrom(p, parts, i + 1)
       ELSE IF StartsWith(part, "/") THEN Some(part)
       ELSE IF which.started /\ which.success /\ resolved # "" THEN Some(resolved)
       ELSE IF part # "" /\ ~StartsWith(part, "-") THEN Some(part)
       ELSE ParseExecFrom(p, parts, i + 1)

\* parse_exec_to_path without the skip of the wrapper commands
RECURSIVE ParseExecFromKeepingWrappers(_, _, _)
ParseExecFromKeepingWrappers(p, parts, i) ==
    LET part == parts[i]
        next(k) == IF i + k <= Len(parts) THEN Some(parts[i + k]) ELSE None
        which == WhichOutcome(p, part)
        resolved == Trim(which.stdout)
    IN IF i > Len(parts) THEN None
       ELSE IF StartsWith(part, "%") THEN ParseExecFromKeepingWrappers(p, parts, i + 1)
       ELSE IF Contains(part, "=") THEN ParseExecFromKeepingWrappers(p, parts, i + 1)
       ELSE IF part = "flatpak" /\ next(1) = Some("run")
       THEN IF IsSome(next(2)) THEN Some("/usr/bin/flatpak run " \o Unwrap(next(2)))
            ELSE Some("/usr/bin/flatpak")
       ELSE IF part = "snap" /\ next(1) = Some("run")
       THEN IF IsSome(next(2)) THEN Some("/snap/bin/" \o Unwrap(next(2)))
            ELSE Some("/usr/bin/snap")
       ELSE IF StartsWith(part, "/") THEN Some(part)
       ELSE IF which.started /\ which.success /\ resolved # "" THEN Some(resolved)
       ELSE IF part # "" /\ ~StartsWith(part, "-") THEN Some(part)
       ELSE ParseExecFromKeepingWrappers(p, parts, i + 1)

parse_exec_to_path_keeping_wrappers(p, exec) ==
    ParseExecFromKeepingWrappers(p, SplitWhitespace(exec), 1)

\* parse_exec_to_path taking the word after flatpak or snap, not the one
\* after run, for the application
RECURSIVE ParseExecFromOffByOne(_, _, _)
ParseExecFromOffByOne(p, parts, i) ==
    LET part == parts[i]
        next(k) == IF i + k <= Len(parts) THEN Some(parts[i + k]) ELSE None
        which == WhichOutcome(p, part)
        resolved == Trim(which.stdout)
    IN IF i > Len(parts) THEN None
       ELSE IF StartsWith(part, "%") THEN ParseExecFromOffByOne(p, parts, i + 1)
       ELSE IF Contains(part, "=") THEN ParseExecFromOffByOne(p, parts, i + 1)
       ELSE IF part = "flatpak" /\ next(1) = Some("run")
       THEN Some("/usr/bin/flatpak run " \o Unwrap(next(1)))
       ELSE IF part = "snap" /\ next(1) = Some("run")
       THEN Some("/snap/bin/" \o Unwrap(next(1)))
       ELSE IF part \in {"env", "sh", "-c", "bash"} THEN ParseExecFromOffByOne(p, parts, i + 1)
       ELSE IF StartsWith(part, "/") THEN Some(part)
       ELSE IF which.started /\ which.success /\ resolved # "" THEN Some(resolved)
       ELSE IF part # "" /\ ~StartsWith(part, "-") THEN Some(part)
       ELSE ParseExecFromOffByOne(p, parts, i + 1)

parse_exec_to_path_off_by_one(p, exec) ==
    ParseExecFromOffByOne(p, SplitWhitespace(exec), 1)

\* parse_exec_to_path
parse_exec_to_path(p, exec) == ParseExecFrom(p, SplitWhitespace(exec), 1)

\* build_browser_from_meta (Linux) preferring the descriptor's Name to the
\* registry's
linux_build_browser_from_meta_entry_name(p, meta, entry) ==
    LET executable ==
            UnwrapOr(IF IsSome(entry.exec)
                     THEN parse_exec_to_path(p, Unwrap(entry.exec)) ELSE None, "")
        version == extract_version(p, executable)
    IN maybe_with_version(
           with_variant(BrowserNew(meta.id, UnwrapOr(entry.name, meta.name), executable),
                        meta.variant),
           version)

\* build_browser_from_meta (Linux)
linux_build_browser_from_meta(p, meta, entry) ==
    LET executable ==
            UnwrapOr(IF IsSome(entry.exec)
                     THEN parse_exec_to_path(p, Unwrap(entry.exec)) ELSE None, "")
        version == extract_version(p, executable)
    IN maybe_with_version(
           with_variant(BrowserNew(meta.id, meta.name, executable), meta.variant),
           version)

\* build_unknown_browser (Linux)
linux_build_unknown_browser(p, desktop_id, entry) ==
    LET name == UnwrapOr(entry.name, desktop_id)
        executable ==
            UnwrapOr(IF IsSome(entry.exec)
                     THEN parse_exec_to_path(p, Unwrap(entry.exec)) ELSE None, "")
        version == extract_version(p, executable)
    IN maybe_with_version(
           with_variant(BrowserNew(desktop_id, name, executable),
                        [type |-> "Single", value |-> "Other"]),
           version)

\* build_browser (Linux)
linux_build_browser(p, desktop_id, entry) ==
    LET meta == find_by_desktop_id(desktop_id)
    IN IF IsSome(meta) THEN linux_build_browser_from_meta(p, Unwrap(meta), entry)
       ELSE linux_build_unknown_browser(p, desktop_id, entry)

\* A child process: Command::new(program).args(args).output()
ChildProcess(program, args) == [program |-> program, args |-> args]

\* The child processes parse_exec_to_path launches, in order: the loop over
\* parts from index i on
RECURSIVE ParseExecSpawnsFrom(_, _, _)
ParseExecSpawnsFrom(p, parts, i) ==
    LET part == parts[i]
        next(k) == IF i + k <= Len(parts) THEN Some(parts[i + k]) ELSE None
        which == WhichOutcome(p, part)
        resolved == Trim(which.stdout)
    IN IF i > Len(parts) THEN <<>>
       ELSE IF StartsWith(part, "%") THEN ParseExecSpawnsFrom(p, parts, i + 1)
       ELSE IF Contains(part, "=") THEN ParseExecSpawnsFrom(p, parts, i + 1)
       ELSE IF part = "flatpak" /\ next(1) = Some("run") THEN <<>>
       ELSE IF part = "snap" /\ next(1) = Some("run") THEN <<>>
       ELSE IF part \in {"env", "sh", "-c", "bash"} THEN ParseExecSpawnsFrom(p, parts, i + 1)
       ELSE IF StartsWith(part, "/") THEN <<>>
       ELSE <<ChildProcess("which", <<part>>)>>
                \o (IF which.started /\ which.success /\ resolved # "" THEN <<>>
                    ELSE IF part # "" /\ ~StartsWith(part, "-") THEN <<>>
                    ELSE ParseExecSpawnsFrom(p, parts, i + 1))

\* The child processes parse_exec_to_path launches
parse_exec_to_path_spawns(p, exec) == ParseExecSpawnsFrom(p, SplitWhitespace(exec), 1)

\* The child processes extract_version launches
extract_version_spawns(executable) ==
    IF executable = "" THEN <<>>
    ELSE IF Contains(executable, "flatpak run") \/ StartsWith(executable, "/snap/bin/")
    THEN <<>>
    ELSE <<ChildProcess(executable, <<"--version">>)>>

\* The child processes build_browser launches (Linux): those of
\* build_browser_from_meta and of build_unknown_browser are the same
linux_build_browser_spawns(p, entry) ==
    LET executable ==
            UnwrapOr(IF IsSome(entry.exec)
                     THEN parse_exec_to_path(p, Unwrap(entry.exec)) ELSE None, "")
    IN (IF IsSome(entry.exec) THEN parse_exec_to_path_spawns(p, Unwrap(entry.exec))
        ELSE <<>>)
           \o extract_version_spawns(executable)

\* ------------------------------------------------------------------------
\* Operating system as seen by the macOS detector
\* ------------------------------------------------------------------------
\* plist::Value: a string value or a value of another type
PlistString(text) == [is_string |-> TRUE, text |-> text]

PlistOther == [is_string |-> FALSE, text |-> ""]

\* plist::Value::as_string
as_string(v) == IF v.is_string THEN Some(v.text) ELSE None

PlistKeys == {"CFBundleShortVersionString", "CFBundleVersion", "CFBundleDisplayName",
              "CFBundleName", "CFBundleExecutable"}

NoKeys == [k \in PlistKeys |-> None]

\* What Launch Services and the file system hold for a bundle identifier:
\* url is the answer of LSCopyApplicationURLsForBundleIdentifier (None: null
\* or empty array; Some(None): a URL that is no file path), plist the
\* dictionary of Contents/Info.plist (None: unreadable or no dictionary),
\* existing the paths below the bundle that exist.
MacApps ==
    [b \in {"com.google.Chrome", "com.apple.Safari", "org.mozilla.firefox",
            "com.example.MyBrowser", "com.example.Odd", "com.example.Helper",
            "org.gone.Browser", "net.remote.Browser", "chrome"} |->
        CASE b = "com.google.Chrome" ->
                [url |-> Some(Some("/Applications/Google Chrome.app")),
                 plist |-> Some([NoKeys EXCEPT
                     !["CFBundleShortVersionString"] = Some(PlistString("120.0.6099.109")),
                     !["CFBundleVersion"] = Some(PlistString("6099.109")),
                     !["CFBundleName"] = Some(PlistString("Chrome")),
                     !["CFBundleExecutable"] = Some(PlistString("Google Chrome"))]),
                 existing |-> {"/Applications/Google Chrome.app/Contents/MacOS/Google Chrome"}]
          [] b = "com.apple.Safari" ->
                [url |-> Some(Some("/System/Volumes/Preboot/Cryptexes/App/System/Applications/Safari.app")),
                 plist |-> Some([NoKeys EXCEPT
                     !["CFBundleVersion"] = Some(PlistString("19618.1.15")),
                     !["CFBundleExecutable"] = Some(PlistString("Safari"))]),
                 existing |-> {}]
          [] b = "org.mozilla.firefox" ->
                [url |-> Some(Some("/Applications/Firefox.app")),
                 plist |-> None,
                 existing |-> {"/Applications/Firefox.app/Contents/MacOS/Firefox"}]
          [] b = "com.example.MyBrowser" ->
                [url |-> Some(Some("/Applications/My Browser.app")),
                 plist |-> Some([NoKeys EXCEPT
                     !["CFBundleShortVersionString"] = Some(PlistOther),
                     !["CFBundleVersion"] = Some(PlistString("7")),
                     !["CFBundleDisplayName"] = Some(PlistString("My Browser")),
                     !["CFBundleName"] = Some(PlistString("mybrowser"))]),
                 existing |-> {}]
          [] b = "com.example.Odd" ->
                [url |-> Some(Some("/Applications/Odd.app")),
                 plist |-> Some([NoKeys EXCEPT
                     !["CFBundleShortVersionString"] = Some(PlistString("2.1")),
                     !["CFBundleDisplayName"] = Some(PlistOther),
                     !["CFBundleName"] = Some(PlistString("Odd Browser"))]),
                 existing |-> {}]
          [] b = "com.example.Helper" ->
                [url |-> Some(Some("/Applications/Foo.app/Contents/Support/Bar.app")),
                 plist |-> Some([NoKeys EXCEPT
                     !["CFBundleName"] = Some(PlistString("Bar"))]),
                 existing |-> {}]
          [] b = "org.gone.Browser" ->
                [url |-> None, plist |-> None, existing |-> {}]
          [] b = "net.remote.Browser" ->
                [url |-> Some(None), plist |-> None, existing |-> {}]
          [] OTHER ->
                [url |-> Some(Some("/Applications/chrome.app")),
                 plist |-> Some(NoKeys),
                 existing |-> {}]]

MacBundleIds == DOMAIN MacApps

\* get_application_url followed by CFURL::to_path
get_application_path(bundle_id) ==
    LET url == MacApps[bundle_id].url
    IN IF IsNone(url) THEN None ELSE Unwrap(url)

\* The application a path belongs to
AppAt(app_path) ==
    CHOOSE b \in MacBundleIds : get_application_path(b) = Some(app_path)

\* ------------------------------------------------------------------------
\* macOS detector: pure parts (platform/macos.rs)
\* ------------------------------------------------------------------------
\* is_nested_app looking for a bundle boundary anywhere in the path
is_nested_app_anywhere(app_path) == Contains(app_path, ".app/")

\* is_nested_app
is_nested_app(app_path) ==
    LET last_app_pos == RFind(app_path, ".app")
        before_last == SubSeq(app_path, 1, last_app_pos - 1)
    IN IF last_app_pos = 0 THEN FALSE ELSE Contains(before_last, ".app/")

\* Path::join
PathJoin(base, rel) ==
    IF StartsWith(rel, "/") THEN rel
    ELSE IF base = "" \/ EndsWith(base, "/") THEN base \o rel
    ELSE base \o "/" \o rel

\* Path::file_stem of the last component of a path
PathStemOf(path) ==
    LET i == RFind(path, "/")
    IN PathFileStem(SubSeq(path, i + 1, Len(path)))

\* dict.get(first).or_else(|| dict.get(second)).and_then(as_string)
PlistFirstOf(app_path, first, second) ==
    LET plist == MacApps[AppAt(app_path)].plist
        dict == Unwrap(plist)
        v == IF IsSome(dict[first]) THEN dict[first] ELSE dict[second]
    IN IF IsNone(plist) THEN None
       ELSE IF IsNone(v) THEN None
       ELSE as_string(Unwrap(v))

\* extract_version_from_plist
extract_version_from_plist(app_path) ==
    PlistFirstOf(app_path, "CFBundleShortVersionString", "CFBundleVersion")

\* extract_name_from_plist
extract_name_from_plist(app_path) ==
    PlistFirstOf(app_path, "CFBundleDisplayName", "CFBundleName")

\* derive_name_from_bundle_id
derive_name_from_bundle_id(bundle_id) ==
    LET pieces == Split(bundle_id, ".")
    IN Some(pieces[Len(pieces)])

\* get_executable_name_from_plist
get_executable_name_from_plist(app_path) ==
    LET plist == MacApps[AppAt(app_path)].plist
        v == Unwrap(plist)["CFBundleExecutable"]
    IN IF IsNone(plist) THEN None
       ELSE IF IsNone(v) THEN None
       ELSE as_string(Unwrap(v))

\* find_executable
find_executable(app_path) ==
    LET exec_name == get_executable_name_from_plist(app_path)
        exec_path == PathJoin(PathJoin(app_path, "Contents/MacOS"), Unwrap(exec_name))
        app_name == UnwrapOr(PathStemOf(app_path), "executable")
        fallback_path == PathJoin(PathJoin(app_path, "Contents/MacOS"), app_name)
    IN IF IsSome(exec_name) /\ exec_path \in MacApps[AppAt(app_path)].existing
       THEN exec_path
       ELSE fallback_path

\* build_browser_from_meta (macOS)
macos_build_browser_from_meta(meta, bundle_id, app_path) ==
    LET version == extract_version_from_plist(app_path)
        executable == find_executable(app_path)
    IN maybe_with_version(
           with_bundle_id(
               with_variant(BrowserNew(meta.id, meta.name, executable), meta.variant),
               bundle_id),
           version)

\* build_unknown_browser (macOS)
macos_build_unknown_browser(bundle_id, app_path) ==
    LET from_plist == extract_name_from_plist(app_path)
        derived == IF IsSome(from_plist) THEN from_plist
                   ELSE derive_name_from_bundle_id(bundle_id)
        name == UnwrapOr(derived, bundle_id)
        version == extract_version_from_plist(app_path)
        executable == find_executable(app_path)
    IN maybe_with_version(
           with_bundle_id(
               with_variant(BrowserNew(bundle_id, name, executable),
                            [type |-> "Single", value |-> "Other"]),
               bundle_id),
           version)

\* build_browser (macOS)
macos_build_browser(bundle_id, app_path) ==
    LET meta == find_by_bundle_id(bundle_id)
    IN IF IsSome(meta) THEN macos_build_browser_from_meta(Unwrap(meta), bundle_id, app_path)
       ELSE macos_build_unknown_browser(bundle_id, app_path)

\* The handler loop's body without the nested-app filter
macos_handler_browser_keeping_nested(bundle_id) ==
    LET app_path == get_application_path(bundle_id)
    IN IF IsNone(app_path) THEN None
       ELSE Some(macos_build_browser(bundle_id, Unwrap(app_path)))

\* The part of the handler loop's body of detect_browsers (macOS) that
\* depends on the handler alone: the browser it yields, None when one of
\* the `continue`s skips it
macos_handler_browser(bundle_id) ==
    LET app_path == get_application_path(bundle_id)
    IN IF IsNone(app_path) THEN None
       ELSE IF is_nested_app(Unwrap(app_path)) THEN None
       ELSE Some(macos_build_browser(bundle_id, Unwrap(app_path)))

\* macos_handler_browser of every bundle identifier of the host
HandlerBrowsers == [b \in MacBundleIds |-> macos_handler_browser(b)]

\* The body of the handler loop of detect_browsers (macOS): the list after
\* a handler has been processed, built what macos_handler_browser gives for it
macos_process_handler(browsers, built) ==
    IF IsNone(built) THEN browsers ELSE Append(browsers, Unwrap(built))

\* detect_default_browser (macOS), given the answer of get_default_url_handler
macos_detect_default_browser(handler) ==
    LET bundle_id == Unwrap(handler)
        app_path == get_application_path(bundle_id)
    IN IF IsNone(handler) THEN None
       ELSE IF IsNone(app_path) THEN None
       ELSE IF is_nested_app(Unwrap(app_path)) THEN None
       ELSE Some(macos_build_browser(bundle_id, Unwrap(app_path)))

\* ------------------------------------------------------------------------
\* Descriptor files the model's hosts may hold (Linux)
\* ------------------------------------------------------------------------
DesktopFile(name, kind, readable, lines) ==
    [name |-> name, kind |-> kind, readable |-> readable, lines |-> lines]

\* What a directory entry can be.  kind says what the file is: "browser" for
\* a well-formed descriptor of an application that handles web content,
\* "not_browser" for a well-formed descriptor of another application,
\* "unparsable" for a descriptor without the required keys, "unreadable"
\* for a path whose content cannot be read, "not_desktop" for any other file.
Catalogue ==
    [k \in {"google-chrome", "google-chrome-stable", "chrome", "mybrowser",
            "mybrowser-wrapped", "librewolf", "firefox-flatpak", "gedit", "broken",
            "locked", "notes"} |->
        CASE k = "google-chrome" ->
                DesktopFile("google-chrome.desktop", "browser", TRUE,
                    <<"[Desktop Entry]", "Name=Google Chrome",
                      "Exec=/usr/bin/google-chrome-stable %U",
                      "MimeType=text/html;x-scheme-handler/http;x-scheme-handler/https;",
                      "[Desktop Action new-window]", "Name=New Window",
                      "Exec=/usr/bin/google-chrome-stable">>)
          [] k = "google-chrome-stable" ->
                DesktopFile("google-chrome-stable.desktop", "browser", TRUE,
                    <<"# alias", "[Desktop Entry]", "Name=Chrome",
                      "Exec=env A=b /opt/google/chrome/chrome %U",
                      "Categories=Network;WebBrowser;">>)
          [] k = "chrome" ->
                DesktopFile("chrome.desktop", "browser", TRUE,
                    <<"[Desktop Entry]", "Name=Chrome Launcher", "Exec=/opt/chrome/launcher",
                      "MimeType=x-scheme-handler/https">>)
          [] k = "mybrowser" ->
                DesktopFile("mybrowser.desktop", "browser", TRUE,
                    <<"[Desktop Entry]", "Exec=mybrowser %u", "Name=My Browser",
                      "Categories=WebBrowser">>)
          [] k = "mybrowser-wrapped" ->
                DesktopFile("mybrowser.desktop", "browser", TRUE,
                    <<"[Desktop Entry]", "Name=My Browser (wrapped)",
                      "Exec=env LANG=C %u", "Categories=WebBrowser;">>)
          [] k = "librewolf" ->
                DesktopFile("librewolf.desktop", "browser", TRUE,
                    <<"[Desktop Entry]", "Name=LibreWolf", "Exec=librewolf %u",
                      "MimeType=text/html;">>)
          [] k = "firefox-flatpak" ->
                DesktopFile("firefox.desktop", "browser", TRUE,
                    <<"[Desktop Entry]", "Name=Firefox",
                      "Exec=flatpak run org.mozilla.firefox %u",
                      "MimeType=x-scheme-handler/http;">>)
          [] k = "gedit" ->
                DesktopFile("gedit.desktop", "not_browser", TRUE,
                    <<"[Desktop Entry]", "Name=Text Editor", "Exec=/usr/bin/gedit %u",
                      "MimeType=text/plain;", "Categories=TextEditor;">>)
          [] k = "broken" ->
                DesktopFile("firefox.desktop", "unparsable", TRUE,
                    <<"[Desktop Entry]", "Name=Firefox",
                      "MimeType=x-scheme-handler/http;">>)
          [] k = "locked" ->
                DesktopFile("google-chrome.desktop", "unreadable", FALSE, <<>>)
          [] OTHER ->
                DesktopFile("mimeinfo.cache", "not_desktop", TRUE,
                    <<"[MIME Cache]", "text/html=firefox.desktop;">>)]

CatalogueKeys == DOMAIN Catalogue

\* ------------------------------------------------------------------------
\* Linux detector: directory scan and default browser (platform/linux.rs)
\* ------------------------------------------------------------------------
\* The values of the user's data home and home directory
Envs ==
    {[data_home |-> Some("/home/u/.local/share"), home |-> Some("/home/u")],
     [data_home |-> None, home |-> None]}

\* get_desktop_dirs before the retain: every directory it pushes
desktop_dir_candidates(e) ==
    <<"/usr/share/applications", "/usr/local/share/applications">>
        \o (IF IsSome(e.data_home)
            THEN <<PathJoin(Unwrap(e.data_home), "applications")>> ELSE <<>>)
        \o (IF IsSome(e.home)
            THEN <<PathJoin(Unwrap(e.home), ".local/share/flatpak/exports/share/applications")>>
            ELSE <<>>)
        \o <<"/var/lib/snapd/desktop/applications">>

\* get_desktop_dirs: existing is the set of paths that are directories
get_desktop_dirs(e, existing) ==
    SelectSeq(desktop_dir_candidates(e), LAMBDA d : d \in existing)

\* The match on read_dir with the error propagated instead of skipped
read_dir_arm_propagating(ok) == IF ok THEN "entries" ELSE "failed"

\* The match on std::fs::read_dir in detect_browsers: where the scan goes on
read_dir_arm(ok) == IF ok THEN "entries" ELSE "dirs"

\* The entry loop's body without the is_browser check
linux_entry_browser_any_app(p, file) ==
    LET ext == PathExtension(file.name)
        desktop == parse_desktop_file(file)
        desktop_id == PathFileStem(file.name)
    IN IF IsNone(ext) \/ Unwrap(ext) # "desktop" THEN None
       ELSE IF IsNone(desktop) THEN None
       ELSE IF IsNone(desktop_id) THEN None
       ELSE Some(linux_build_browser(p, Unwrap(desktop_id), Unwrap(desktop)))

\* The part of the entry loop's body that depends on the file alone: the
\* browser the entry yields, None when one of the `continue`s skips it
linux_entry_browser(p, file) ==
    LET ext == PathExtension(file.name)
        desktop == parse_desktop_file(file)
        desktop_id == PathFileStem(file.name)
    IN IF IsNone(ext) \/ Unwrap(ext) # "desktop" THEN None
       ELSE IF IsNone(desktop) THEN None
       ELSE IF ~is_browser(Unwrap(desktop)) THEN None
       ELSE IF IsNone(desktop_id) THEN None
       ELSE Some(linux_build_browser(p, Unwrap(desktop_id), Unwrap(desktop)))

\* The child processes the entry loop's body launches for a file: those of
\* build_browser, which it calls before it looks at seen_ids
linux_entry_spawns(p, file) ==
    LET ext == PathExtension(file.name)
        desktop == parse_desktop_file(file)
        desktop_id == PathFileStem(file.name)
    IN IF IsNone(ext) \/ Unwrap(ext) # "desktop" THEN <<>>
       ELSE IF IsNone(desktop) THEN <<>>
       ELSE IF ~is_browser(Unwrap(desktop)) THEN <<>>
       ELSE IF IsNone(desktop_id) THEN <<>>
       ELSE linux_build_browser_spawns(p, Unwrap(desktop))

\* linux_entry_spawns of every file of the catalogue on every host
EntrySpawns ==
    [p \in OsProfiles |-> [k \in CatalogueKeys |-> linux_entry_spawns(p, Catalogue[k])]]

\* linux_entry_browser of every file of the catalogue on every host
EntryBrowsers ==
    [p \in OsProfiles |-> [k \in CatalogueKeys |-> linux_entry_browser(p, Catalogue[k])]]

\* The entry loop's body keeping one browser of each family
linux_process_entry_by_family(st, built) ==
    IF IsNone(built) THEN st
    ELSE IF \E i \in 1..Len(st.browsers) :
                BrowserFamilyOf(st.browsers[i]) = BrowserFamilyOf(Unwrap(built))
    THEN st
    ELSE [browsers |-> Append(st.browsers, Unwrap(built)),
          seen_ids |-> st.seen_ids \cup {Unwrap(built).id}]

\* The entry loop's body skipping a browser without an executable
linux_process_entry_no_empty(st, built) ==
    IF IsNone(built) THEN st
    ELSE IF Unwrap(built).executable = "" THEN st
    ELSE IF Unwrap(built).id \in st.seen_ids THEN st
    ELSE [browsers |-> Append(st.browsers, Unwrap(built)),
          seen_ids |-> st.seen_ids \cup {Unwrap(built).id}]

\* The entry loop's body without the seen_ids check
linux_process_entry_no_dedupe(st, built) ==
    IF IsNone(built) THEN st
    ELSE [browsers |-> Append(st.browsers, Unwrap(built)),
          seen_ids |-> st.seen_ids \cup {Unwrap(built).id}]

\* The body of the entry loop of detect_browsers: st is [browsers, seen_ids],
\* built what linux_entry_browser gives for the entry
linux_process_entry(st, built) ==
    IF IsNone(built) THEN st
    ELSE IF Unwrap(built).id \in st.seen_ids THEN st
    ELSE [browsers |-> Append(st.browsers, Unwrap(built)),
          seen_ids |-> st.seen_ids \cup {Unwrap(built).id}]

\* detect_browsers (Linux) run to completion on a host whose existing
\* directories are all readable and hold, in the order read, exactly the
\* files keys: the fold of the entry loop's body from st on
RECURSIVE linux_scan(_, _, _)
linux_scan(p, st, keys) ==
    IF keys = <<>> THEN st
    ELSE linux_scan(p, linux_process_entry(st, EntryBrowsers[p][Head(keys)]), Tail(keys))

\* The list that run returns
linux_detect_browsers(p, keys) ==
    linux_scan(p, [browsers |-> <<>>, seen_ids |-> {}], keys).browsers

\* detect_default_browser (Linux) answering with a browser made up from the
\* reported desktop id when the detected list holds no match
linux_detect_default_browser_made_up(output, detected) ==
    LET desktop_file == Trim(output.stdout)
        desktop_id == StripSuffixOr(desktop_file, ".desktop")
        matches(b) ==
            LET meta == find_by_id(b.id)
            IN IF IsSome(meta) THEN SeqContains(Unwrap(meta).linux_desktop_ids, desktop_id)
               ELSE b.id = desktop_id
        found == FindFirst(detected, matches)
    IN IF ~output.started THEN None
       ELSE IF ~output.success THEN None
       ELSE IF desktop_file = "" THEN None
       ELSE IF IsSome(found) THEN found
       ELSE Some(BrowserNew(desktop_id, desktop_id, ""))

\* detect_default_browser (Linux): output is the outcome of xdg-settings,
\* detected the list detect_browsers() returns
linux_detect_default_browser(output, detected) ==
    LET desktop_file == Trim(output.stdout)
        desktop_id == StripSuffixOr(desktop_file, ".desktop")
        matches(b) ==
            LET meta == find_by_id(b.id)
            IN IF IsSome(meta) THEN SeqContains(Unwrap(meta).linux_desktop_ids, desktop_id)
               ELSE b.id = desktop_id
    IN IF ~output.started THEN None
       ELSE IF ~output.success THEN None
       ELSE IF desktop_file = "" THEN None
       ELSE FindFirst(detected, matches)

\* ------------------------------------------------------------------------
\* Orchestration layer (browserware-detect/src/lib.rs)
\* ------------------------------------------------------------------------
\* detect_browser accepting a Linux desktop id for the canonical id as well
detect_browser_by_alias(detected, id) ==
    FindFirst(detected,
              LAMBDA b : \/ b.id = id
                         \/ find_by_desktop_id(id) # None
                            /\ Unwrap(find_by_desktop_id(id)).id = b.id)

\* detect_browsers_by_family comparing the variant's tag with the family
detect_browsers_by_family_by_tag(detected, f) ==
    SelectSeq(detected, LAMBDA b : b.variant.type = f)

\* detect_browser, given the list detect_browsers() returns
detect_browser(detected, id) == FindFirst(detected, LAMBDA b : b.id = id)

\* detect_browsers_by_family, given the list detect_browsers() returns
RECURSIVE detect_browsers_by_family(_, _)
detect_browsers_by_family(detected, f) ==
    IF detected = <<>> THEN <<>>
    ELSE (IF BrowserFamilyOf(Head(detected)) = f THEN <<Head(detected)>> ELSE <<>>)
             \o detect_browsers_by_family(Tail(detected), f)

\* ------------------------------------------------------------------------
\* Bounds of the model
\* ------------------------------------------------------------------------
\* Search directories that exist on the host
MaxDirs == 2

\* Directory entries read by one detect_browsers scan, over all directories
MaxEntries == 3

\* Handlers Launch Services reports for the https scheme
MaxHandlers == 3

\* ------------------------------------------------------------------------
\* Inputs of the entry points
\* ------------------------------------------------------------------------
Platforms == {"linux", "macos", "windows", "other"}

\* Identifiers callers pass to detect_browser
QueryIds == {"chrome", "firefox", "librewolf", "mybrowser", "google-chrome",
             "com.example.MyBrowser", "nonexistent-browser-xyz-12345"}

\* Outcomes of `xdg-settings get default-web-browser`
XdgOutcomes ==
    {NotStarted, Exited(FALSE, "firefox.desktop\n"), Exited(TRUE, ""),
     Exited(TRUE, " \n"), Exited(TRUE, "google-chrome.desktop\n"),
     Exited(TRUE, "google-chrome-stable.desktop\n"), Exited(TRUE, "chrome.desktop\n"),
     Exited(TRUE, "chrome"), Exited(TRUE, "mybrowser.desktop\n"),
     Exited(TRUE, "mybrowser"), Exited(TRUE, "firefox.desktop\n"),
     Exited(TRUE, "librewolf.desktop.desktop\n")}

\* Answers of LSCopyDefaultHandlerForURLScheme
DefaultHandlers == {None} \cup {Some(b) : b \in MacBundleIds}

\* ------------------------------------------------------------------------
\* State
\* ------------------------------------------------------------------------
VARIABLES
    platform,   \* the target the crate was built for (platform/mod.rs cfg)
    profile,    \* the host's utilities (Linux)
    pc,         \* position of the running detect_browsers call
    dirs,       \* detect_browsers (Linux): directories still to scan
    listed,     \* names the current directory's iterator has yielded
    nread,      \* directory entries read so far
    browsers,   \* detect_browsers: the list built so far
    seen_ids,   \* detect_browsers (Linux): ids already in the list
    scanned,    \* history: the browser descriptors read (Linux) or the handlers
                \* processed (macOS) so far, in order
    handlers,   \* detect_browsers (macOS): handlers still to process
    result,     \* the entry point called and what it returned
    events,     \* history: what the host answered during the scan
    spawned,    \* history: the child processes the scan has launched, in order
    pure        \* a pure function applied on its own: [fn, arg, ret]

vars == <<platform, profile, pc, dirs, listed, nread, browsers, seen_ids,
          scanned, handlers, result, events, spawned, pure>>

\* What no step of a detection call changes
fixed == <<platform, profile, pure>>

NoPure == [fn |-> "none", arg |-> <<>>, ret |-> <<>>]

NoResult == [fn |-> "none", id |-> "", family |-> "", output |-> NotStarted,
             handler |-> None, value |-> <<>>]

Init ==
    /\ platform \in Platforms
    /\ profile \in (IF platform = "linux" THEN OsProfiles ELSE {"minimal"})
    /\ pc = "start"
    /\ dirs = <<>>
    /\ listed = {}
    /\ nread = 0
    /\ browsers = <<>>
    /\ seen_ids = {}
    /\ scanned = <<>>
    /\ handlers = <<>>
    /\ result = NoResult
    /\ events = {}
    /\ spawned = <<>>
    /\ pure = NoPure

\* --- detect_browsers, Linux ------------------------------------------------
\* get_desktop_dirs(): e is the user's environment, existing the set of
\* candidates that are directories
LinuxBegin ==
    /\ platform = "linux" /\ pc = "start"
    /\ \E e \in Envs :
           \E existing \in SUBSET {desktop_dir_candidates(e)[i] :
                                       i \in 1..Len(desktop_dir_candidates(e))} :
               /\ Cardinality(existing) <= MaxDirs
               /\ dirs' = get_desktop_dirs(e, existing)
               /\ events' = IF existing = {} THEN {"no_dirs"} ELSE {}
    /\ pc' = "dirs"
    /\ UNCHANGED <<fixed, spawned, listed, nread, browsers, seen_ids, scanned, handlers, result>>

\* std::fs::read_dir on the next directory succeeds or fails
LinuxReadDir ==
    /\ platform = "linux" /\ pc = "dirs" /\ dirs # <<>>
    /\ \E ok \in BOOLEAN :
           /\ pc' = read_dir_arm(ok)
           /\ dirs' = IF pc' = "entries" THEN dirs ELSE Tail(dirs)
           /\ events' = IF ok THEN events ELSE events \cup {"dir_unreadable"}
    /\ listed' = {}
    /\ UNCHANGED <<fixed, spawned, nread, browsers, seen_ids, scanned, handlers, result>>

\* The directory iterator yields an entry
LinuxEntry ==
    /\ platform = "linux" /\ pc = "entries" /\ nread < MaxEntries
    /\ \E k \in CatalogueKeys :
           LET st == linux_process_entry([browsers |-> browsers, seen_ids |-> seen_ids],
                                         EntryBrowsers[profile][k])
           IN /\ Catalogue[k].name \notin listed
              /\ listed' = listed \cup {Catalogue[k].name}
              /\ browsers' = st.browsers
              /\ seen_ids' = st.seen_ids
              /\ scanned' = IF Catalogue[k].kind = "browser"
                            THEN Append(scanned, k) ELSE scanned
              /\ spawned' = spawned \o EntrySpawns[profile][k]
              /\ events' = IF Catalogue[k].kind = "browser" THEN events
                           ELSE events \cup {Catalogue[k].kind}
    /\ nread' = nread + 1
    /\ UNCHANGED <<fixed, pc, dirs, handlers, result>>

\* The directory iterator yields an error, which flatten() drops
LinuxEntryError ==
    /\ platform = "linux" /\ pc = "entries" /\ nread < MaxEntries
    /\ nread' = nread + 1
    /\ events' = events \cup {"entry_error"}
    /\ UNCHANGED <<fixed, spawned, pc, dirs, listed, browsers, seen_ids, scanned, handlers, result>>

\* The directory iterator is exhausted
LinuxEndDir ==
    /\ platform = "linux" /\ pc = "entries"
    /\ dirs' = Tail(dirs)
    /\ listed' = {}
    /\ pc' = "dirs"
    /\ UNCHANGED <<fixed, spawned, nread, browsers, seen_ids, scanned, handlers, result, events>>

\* No directory is left: detect_browsers returns browsers
LinuxFinish ==
    /\ platform = "linux" /\ pc = "dirs" /\ dirs = <<>>
    /\ pc' = "listed"
    /\ UNCHANGED <<fixed, spawned, dirs, listed, nread, browsers, seen_ids, scanned, handlers, result, events>>

\* --- detect_browsers, macOS ------------------------------------------------
\* get_all_url_handlers("https"): null, or the registered bundle identifiers
MacBegin ==
    /\ platform = "macos" /\ pc = "start"
    /\ \/ /\ pc' = "listed"             \* null: return the empty list
          /\ events' = {"null_handlers"}
          /\ UNCHANGED handlers
       \/ /\ pc' = "handlers"
          /\ \E n \in 0..MaxHandlers : \E h \in [1..n -> MacBundleIds] :
                 /\ \A i, j \in 1..n : i # j => h[i] # h[j]
                 /\ handlers' = h
          /\ UNCHANGED events
    /\ UNCHANGED <<fixed, spawned, dirs, listed, nread, browsers, seen_ids, scanned, result>>

\* One iteration of the handler loop
MacHandler ==
    /\ platform = "macos" /\ pc = "handlers" /\ handlers # <<>>
    /\ browsers' = macos_process_handler(browsers, HandlerBrowsers[Head(handlers)])
    /\ handlers' = Tail(handlers)
    /\ scanned' = Append(scanned, Head(handlers))
    /\ UNCHANGED <<fixed, spawned, pc, dirs, listed, nread, seen_ids, result, events>>

\* No handler is left: detect_browsers returns browsers
MacFinish ==
    /\ platform = "macos" /\ pc = "handlers" /\ handlers = <<>>
    /\ pc' = "listed"
    /\ UNCHANGED <<fixed, spawned, dirs, listed, nread, browsers, seen_ids, scanned, handlers, result, events>>

\* --- detect_browsers, Windows and unsupported platforms --------------------
StubDetect ==
    /\ platform \in {"windows", "other"} /\ pc = "start"
    /\ browsers' = <<>>
    /\ pc' = "listed"
    /\ UNCHANGED <<fixed, spawned, dirs, listed, nread, seen_ids, scanned, handlers, result, events>>

\* --- Entry points ----------------------------------------------------------
\* When pc = "listed", browsers is the list platform::detect_browsers() returns
\* on this host; an entry point that calls detect_browsers() gets that list.

\* lib.rs detect_browsers
CallDetectBrowsers ==
    /\ pc = "listed"
    /\ result' = [NoResult EXCEPT !.fn = "detect_browsers", !.value = browsers]
    /\ pc' = "returned"
    /\ UNCHANGED <<fixed, spawned, dirs, listed, nread, browsers, seen_ids, scanned, handlers, events>>

\* lib.rs detect_browser
CallDetectBrowser ==
    /\ pc = "listed"
    /\ \E id \in QueryIds :
           result' = [NoResult EXCEPT !.fn = "detect_browser", !.id = id,
                                      !.value = detect_browser(browsers, id)]
    /\ pc' = "returned"
    /\ UNCHANGED <<fixed, spawned, dirs, listed, nread, browsers, seen_ids, scanned, handlers, events>>

\* lib.rs detect_browsers_by_family
CallDetectBrowsersByFamily ==
    /\ pc = "listed"
    /\ \E f \in BrowserFamily :
           result' = [NoResult EXCEPT !.fn = "detect_browsers_by_family", !.family = f,
                                      !.value = detect_browsers_by_family(browsers, f)]
    /\ pc' = "returned"
    /\ UNCHANGED <<fixed, spawned, dirs, listed, nread, browsers, seen_ids, scanned, handlers, events>>

\* lib.rs detect_default_browser on Linux
CallDetectDefaultLinux ==
    /\ pc = "listed" /\ platform = "linux"
    /\ \E output \in XdgOutcomes :
           result' = [NoResult EXCEPT !.fn = "detect_default_browser", !.output = output,
                                      !.value = linux_detect_default_browser(output, browsers)]
    /\ pc' = "returned"
    /\ UNCHANGED <<fixed, spawned, dirs, listed, nread, browsers, seen_ids, scanned, handlers, events>>

\* lib.rs detect_default_browser on macOS
CallDetectDefaultMac ==
    /\ pc = "listed" /\ platform = "macos"
    /\ \E handler \in DefaultHandlers :
           result' = [NoResult EXCEPT !.fn = "detect_default_browser", !.handler = handler,
                                      !.value = macos_detect_default_browser(handler)]
    /\ pc' = "returned"
    /\ UNCHANGED <<fixed, spawned, dirs, listed, nread, browsers, seen_ids, scanned, handlers, events>>

\* lib.rs detect_default_browser on Windows and unsupported platforms
CallDetectDefaultStub ==
    /\ pc = "listed" /\ platform \in {"windows", "other"}
    /\ result' = [NoResult EXCEPT !.fn = "detect_default_browser", !.value = None]
    /\ pc' = "returned"
    /\ UNCHANGED <<fixed, spawned, dirs, listed, nread, browsers, seen_ids, scanned, handlers, events>>

Next ==
    \/ LinuxBegin \/ LinuxReadDir \/ LinuxEntry \/ LinuxEntryError \/ LinuxEndDir
    \/ LinuxFinish
    \/ MacBegin \/ MacHandler \/ MacFinish
    \/ StubDetect
    \/ CallDetectBrowsers \/ CallDetectBrowser \/ CallDetectBrowsersByFamily
    \/ CallDetectDefaultLinux \/ CallDetectDefaultMac \/ CallDetectDefaultStub

Spec == Init /\ [][Next]_vars

\* ------------------------------------------------------------------------
\* Pure functions applied on their own: DesktopEntry::is_browser
\* ------------------------------------------------------------------------
\* Longest MIME-type list and category list of a parsed entry
MaxListLen == 2

\* Every sequence over S of at most n elements
SeqsUpTo(S, n) == UNION {[1..m -> S] : m \in 0..n}

MimePool == {"x-scheme-handler/http", "x-scheme-handler/https", "text/html",
             "text/plain", "x-scheme-handler/mailto", "text/htm"}

CategoryPool == {"WebBrowser", "Network", "TextEditor", "webbrowser"}

\* The entries parse_desktop_file can return with these lists
ParsedEntries ==
    {[name |-> Some("App"), exec |-> Some("/usr/bin/app"),
      mime_types |-> m, categories |-> c] :
        m \in SeqsUpTo(MimePool, MaxListLen), c \in SeqsUpTo(CategoryPool, MaxListLen)}

InitClassify ==
    /\ platform = "linux"
    /\ profile = "minimal"
    /\ pc = "start"
    /\ dirs = <<>>
    /\ listed = {}
    /\ nread = 0
    /\ browsers = <<>>
    /\ seen_ids = {}
    /\ scanned = <<>>
    /\ handlers = <<>>
    /\ result = NoResult
    /\ events = {}
    /\ spawned = <<>>
    /\ pure \in {[fn |-> "none", arg |-> e, ret |-> <<>>] : e \in ParsedEntries}

\* entry.is_browser()
Classify ==
    /\ pure.fn = "none"
    /\ pure' = [fn |-> "is_browser", arg |-> pure.arg, ret |-> is_browser(pure.arg)]
    /\ UNCHANGED <<platform, profile, pc, dirs, listed, nread, browsers, seen_ids,
                   scanned, handlers, result, events, spawned>>

NextClassify == Classify

SpecClassify == InitClassify /\ [][NextClassify]_vars

\* ========================================================================
\* Properties
\* ========================================================================
\* The elements of a sequence
Range(seq) == {seq[i] : i \in 1..Len(seq)}

\* A value of type Browser
IsBrowser(b) ==
    /\ DOMAIN b = {"id", "name", "variant", "version", "executable", "bundle_id"}
    /\ b.variant \in BrowserVariant
    /\ Len(b.version) <= 1
    /\ Len(b.bundle_id) <= 1

\* A value of type Vec<Browser>
IsBrowserList(v) == \A i \in 1..Len(v) : IsBrowser(v[i])

\* A value of type Option<Browser>
IsBrowserOption(v) == v = None \/ (Len(v) = 1 /\ IsBrowser(v[1]))

\* The positions a detection call can be at
Positions == {"start", "dirs", "entries", "handlers", "listed", "returned"}

\* C1: whatever the host answers (directories that cannot be read, entries
\* and files that cannot be read or parsed, utilities that cannot be started,
\* fail or print nothing usable, null handler answers), a call of
\* detect_browsers, detect_browser, detect_default_browser or
\* detect_browsers_by_family is always at one of its ordinary positions, can
\* always take a next step until it has returned, and returns a list of
\* browsers or an optional browser: no error is raised and no call aborts.
NoErrorEscapes ==
    /\ pc \in Positions
    /\ pc = "start" => ENABLED (LinuxBegin \/ MacBegin \/ StubDetect)
    /\ pc = "dirs" => ENABLED (LinuxReadDir \/ LinuxFinish)
    /\ pc = "entries" => ENABLED LinuxEndDir
    /\ pc = "handlers" => ENABLED (MacHandler \/ MacFinish)
    /\ pc = "listed" =>
           /\ ENABLED CallDetectBrowsers
           /\ ENABLED CallDetectBrowser
           /\ ENABLED CallDetectBrowsersByFamily
           /\ ENABLED (CallDetectDefaultLinux \/ CallDetectDefaultMac
                          \/ CallDetectDefaultStub)
    /\ pc = "returned" =>
           /\ result.fn \in {"detect_browsers", "detect_browser",
                             "detect_default_browser", "detect_browsers_by_family"}
           /\ result.fn \in {"detect_browsers", "detect_browsers_by_family"}
                  => IsBrowserList(result.value)
           /\ result.fn \in {"detect_browser", "detect_default_browser"}
                  => IsBrowserOption(result.value)

\* A default-browser call returned on a host where no child process starts,
\* a directory could not be read and an entry could not be read
NoErrorEscapesWitness ==
    /\ pc = "returned" /\ platform = "linux" /\ profile = "minimal"
    /\ result.fn = "detect_default_browser"
    /\ ~result.output.started
    /\ {"dir_unreadable", "entry_error"} \subseteq events
    /\ Len(browsers) >= 1

\* C2: on Linux the list built so far, and so the list detect_browsers
\* returns, is the list the scan builds on a host that holds only the browser
\* descriptors read, in the same order: unreadable directories, unreadable
\* and unparsable files, non-descriptor files and descriptors of other
\* applications add nothing and change nothing.
FaultsContributeNothing ==
    platform = "linux" =>
        /\ browsers = linux_detect_browsers(profile, scanned)
        /\ result.fn = "detect_browsers"
               => result.value = linux_detect_browsers(profile, scanned)

\* detect_browsers returned a non-empty list after an unreadable directory
\* and at least two kinds of unusable files
FaultsContributeNothingWitness ==
    /\ platform = "linux" /\ pc = "returned" /\ result.fn = "detect_browsers"
    /\ "dir_unreadable" \in events
    /\ Cardinality(events \cap {"unreadable", "unparsable", "not_browser", "not_desktop"}) >= 2
    /\ Len(result.value) >= 1

\* The browser built from the n-th browser descriptor read
ScannedBrowser(n) == Unwrap(EntryBrowsers[profile][scanned[n]])

\* The first descriptor read that resolves to the id of the n-th
FirstWithSameId(n) ==
    CHOOSE m \in 1..n :
        /\ ScannedBrowser(m).id = ScannedBrowser(n).id
        /\ \A l \in 1..(m - 1) : ScannedBrowser(l).id # ScannedBrowser(n).id

\* C3: the list of Linux detect_browsers never holds two browsers with the
\* same id, and for every browser descriptor read, the list holds the browser
\* of the first descriptor in scan order that resolves to the same id (the
\* later ones are skipped); seen_ids is the set of ids in the list.
NoDuplicateIds ==
    platform = "linux" =>
        /\ \A i, j \in 1..Len(browsers) : i # j => browsers[i].id # browsers[j].id
        /\ \A n \in 1..Len(scanned) :
               \E i \in 1..Len(browsers) : browsers[i] = ScannedBrowser(FirstWithSameId(n))
        /\ seen_ids = {browsers[i].id : i \in 1..Len(browsers)}

\* detect_browsers returned after skipping a descriptor that resolves to an
\* id already in the list and would have given a different browser
NoDuplicateIdsWitness ==
    /\ platform = "linux" /\ pc = "returned" /\ result.fn = "detect_browsers"
    /\ \E n \in 1..Len(scanned) :
           /\ FirstWithSameId(n) < n
           /\ ScannedBrowser(n) \notin Range(result.value)

\* C4: detect_browsers_by_family(f) returns exactly the sub-sequence of the
\* detected list whose browsers have family() = f, in the list's order.
ByFamilyIsSubsequence ==
    result.fn = "detect_browsers_by_family" =>
        result.value = SelectSeq(browsers, LAMBDA b : family(b.variant) = result.family)

\* A filter that kept some browsers of a list and dropped others
ByFamilyIsSubsequenceWitness ==
    /\ pc = "returned" /\ result.fn = "detect_browsers_by_family"
    /\ Len(result.value) >= 1
    /\ Len(result.value) < Len(browsers)

\* C5: detect_browser(id) returns the first element of the detected list
\* whose id equals id, and nothing when no element has that id.
FirstWithEqualId ==
    result.fn = "detect_browser" =>
        LET hits == {i \in 1..Len(browsers) : browsers[i].id = result.id}
        IN IF hits = {} THEN result.value = None
           ELSE result.value = Some(browsers[CHOOSE i \in hits : \A j \in hits : i <= j])

\* A lookup that found its browser behind another one, in a list that holds
\* a second browser with the same id
FirstWithEqualIdWitness ==
    /\ pc = "returned" /\ result.fn = "detect_browser"
    /\ result.value # None
    /\ browsers[1].id # result.id
    /\ Cardinality({i \in 1..Len(browsers) : browsers[i].id = result.id}) >= 2

\* The desktop id of every descriptor file: its base name without the extension
DesktopIds == [k \in CatalogueKeys |-> Unwrap(PathFileStem(Catalogue[k].name))]

DesktopIdOf(k) == DesktopIds[k]

\* The registry entry, if any, that lists the desktop id of each descriptor
RegistryEntries == [k \in CatalogueKeys |-> find_by_desktop_id(DesktopIds[k])]

\* The n-th browser descriptor read is one of an unknown browser: the
\* registry has no entry for its desktop id
IsUnknownDescriptor(n) == RegistryEntries[scanned[n]] = None

\* The least element of a non-empty set of positions
Least(S) == CHOOSE i \in S : \A j \in S : i <= j

\* C6: Linux detect_default_browser returns nothing when xdg-settings cannot
\* be run, exits non-zero or prints only whitespace; otherwise, with the
\* desktop id being the trimmed output less one trailing ".desktop", it
\* returns the first browser of the detected list that matches it: a browser
\* built from a registry entry matches when that entry lists the desktop id,
\* an unknown browser matches when its id equals the desktop id. What it
\* returns is an element of the detected list.
LinuxDefaultBrowser ==
    (platform = "linux" /\ result.fn = "detect_default_browser") =>
        LET desktop_file == Trim(result.output.stdout)
            desktop_id == StripSuffixOr(desktop_file, ".desktop")
            matches(i) ==
                \E n \in 1..Len(scanned) :
                    /\ browsers[i] = ScannedBrowser(n)
                    /\ IF IsUnknownDescriptor(n) THEN browsers[i].id = desktop_id
                       ELSE SeqContains(Unwrap(RegistryEntries[scanned[n]]).linux_desktop_ids,
                                        desktop_id)
            hits == {i \in 1..Len(browsers) : matches(i)}
        IN /\ (~result.output.started \/ ~result.output.success \/ desktop_file = "")
                  => result.value = None
           /\ (result.output.started /\ result.output.success /\ desktop_file # "")
                  => result.value = IF hits = {} THEN None ELSE Some(browsers[Least(hits)])
           /\ result.value # None => Unwrap(result.value) \in Range(browsers)

\* C7: on Linux, when an unknown browser was detected from X.desktop and
\* xdg-settings reports X.desktop or X, detect_default_browser returns that
\* browser.
UnknownDefaultIsReturned ==
    (platform = "linux" /\ result.fn = "detect_default_browser"
        /\ result.output.started /\ result.output.success) =>
        \A i \in 1..Len(browsers) : \A n \in 1..Len(scanned) :
            (/\ browsers[i] = ScannedBrowser(n)
             /\ IsUnknownDescriptor(n)
             /\ Trim(result.output.stdout) \in
                    {DesktopIdOf(scanned[n]) \o ".desktop", DesktopIdOf(scanned[n])})
                => result.value = Some(browsers[i])

\* b takes id, name and variant from the registry entry meta (Some), or is
\* the unknown browser of the raw platform identifier raw (None)
FromRegistryOrUnknown(b, meta, raw) ==
    IF IsSome(meta)
    THEN /\ b.id = Unwrap(meta).id
         /\ b.name = Unwrap(meta).name
         /\ b.variant = Unwrap(meta).variant
    ELSE /\ b.id = raw
         /\ b.variant = [type |-> "Single", value |-> "Other"]
         /\ BrowserFamilyOf(b) = "Other"

\* C8: every browser a platform detector produces takes id, name and variant
\* from the registry entry its raw platform identifier matches (the desktop
\* id of its descriptor on Linux, its bundle id on macOS), or, when none
\* matches, has the raw identifier as id, variant Single(Other) and family
\* Other.
MetadataFromRegistryOrUnknown ==
    /\ platform = "linux" =>
           \A i \in 1..Len(browsers) :
               \E n \in 1..Len(scanned) :
                   /\ browsers[i] = ScannedBrowser(n)
                   /\ FromRegistryOrUnknown(browsers[i], RegistryEntries[scanned[n]],
                                            DesktopIdOf(scanned[n]))
    /\ platform = "macos" =>
           /\ \A i \in 1..Len(browsers) :
                  /\ IsSome(browsers[i].bundle_id)
                  /\ FromRegistryOrUnknown(browsers[i],
                                           find_by_bundle_id(Unwrap(browsers[i].bundle_id)),
                                           Unwrap(browsers[i].bundle_id))
           /\ (result.fn = "detect_default_browser" /\ result.value # None) =>
                  /\ Unwrap(result.value).bundle_id = result.handler
                  /\ FromRegistryOrUnknown(Unwrap(result.value),
                                           find_by_bundle_id(Unwrap(result.handler)),
                                           Unwrap(result.handler))

\* Linux detect_browsers returned a list with a browser of the registry,
\* whose descriptor gives another name, and an unknown browser
MetadataFromRegistryOrUnknownWitness ==
    /\ platform = "linux" /\ pc = "returned" /\ result.fn = "detect_browsers"
    /\ \E n, m \in 1..Len(scanned) :
           /\ ~IsUnknownDescriptor(n) /\ ScannedBrowser(n) \in Range(result.value)
           /\ parse_desktop_file(Catalogue[scanned[n]]) # None
           /\ Unwrap(parse_desktop_file(Catalogue[scanned[n]])).name
                  # Some(ScannedBrowser(n).name)
           /\ IsUnknownDescriptor(m) /\ ScannedBrowser(m) \in Range(result.value)

\* C9: with no signal from the host every detector gives the empty list and
\* no default browser: always on Windows and on unsupported platforms, on
\* macOS when the handler queries answer null, on Linux when none of the
\* search directories exists.
EmptyWithoutSignal ==
    /\ platform \in {"windows", "other"} =>
           /\ browsers = <<>>
           /\ result.fn = "detect_browsers" => result.value = <<>>
           /\ result.fn = "detect_default_browser" => result.value = None
    /\ platform = "macos" =>
           /\ "null_handlers" \in events =>
                  /\ browsers = <<>>
                  /\ result.fn = "detect_browsers" => result.value = <<>>
           /\ (result.fn = "detect_default_browser" /\ result.handler = None)
                  => result.value = None
    /\ (platform = "linux" /\ "no_dirs" \in events) =>
           /\ browsers = <<>>
           /\ result.fn = "detect_browsers" => result.value = <<>>
           /\ result.fn = "detect_default_browser" => result.value = None

\* Linux detect_default_browser returned on a host without any search
\* directory, where xdg-settings names a default browser
EmptyWithoutSignalWitness ==
    /\ platform = "linux" /\ pc = "returned" /\ "no_dirs" \in events
    /\ result.fn = "detect_default_browser"
    /\ result.output.started /\ result.output.success
    /\ Trim(result.output.stdout) # ""

\* The MIME types and the category that make an entry a browser
WebMimeTypes == {"x-scheme-handler/http", "x-scheme-handler/https", "text/html"}

\* C10: is_browser is true of a parsed entry exactly when its MIME-type list
\* holds x-scheme-handler/http, x-scheme-handler/https or text/html, or its
\* category list holds WebBrowser, each compared as a whole string.
IsBrowserIff ==
    pure.fn = "is_browser" =>
        (pure.ret <=> \/ Range(pure.arg.mime_types) \cap WebMimeTypes # {}
                      \/ "WebBrowser" \in Range(pure.arg.categories))

\* The entry with only text/plain and TextEditor was classified, as no browser
IsBrowserIffWitness ==
    /\ pure.fn = "is_browser"
    /\ pure.arg.mime_types = <<"text/plain">>
    /\ pure.arg.categories = <<"TextEditor">>
    /\ pure.ret = FALSE

\* ------------------------------------------------------------------------
\* Pure functions applied on their own: one call, on an input drawn from a
\* bounded set
\* ------------------------------------------------------------------------
\* Tokens of an Exec field
MaxTokens == 4

\* The tokens Exec fields are made of
ExecTokens == {"%U", "VAR=value", "env", "-c", "/usr/bin/browser", "firefox",
               "mybrowser", "--new-window"}

\* The tokens separated by single spaces
RECURSIVE JoinTokens(_)
JoinTokens(tokens) ==
    IF tokens = <<>> THEN ""
    ELSE IF Len(tokens) = 1 THEN tokens[1]
    ELSE tokens[1] \o " " \o JoinTokens(Tail(tokens))

InitPure ==
    /\ platform = "linux"
    /\ profile = "minimal"
    /\ pc = "start"
    /\ dirs = <<>>
    /\ listed = {}
    /\ nread = 0
    /\ browsers = <<>>
    /\ seen_ids = {}
    /\ scanned = <<>>
    /\ handlers = <<>>
    /\ result = NoResult
    /\ events = {}
    /\ spawned = <<>>
    /\ pure = NoPure

\* What a call of a pure function leaves alone
unused == <<platform, profile, pc, dirs, listed, nread, browsers, seen_ids,
            scanned, handlers, result, events, spawned>>

\* parse_exec_to_path(exec) on host p
CallParseExec ==
    /\ pure.fn = "none"
    /\ \E p \in OsProfiles : \E tokens \in SeqsUpTo(ExecTokens, MaxTokens) :
           pure' = [fn |-> "parse_exec_to_path",
                    arg |-> [p |-> p, tokens |-> tokens, exec |-> JoinTokens(tokens)],
                    ret |-> parse_exec_to_path(p, JoinTokens(tokens))]
    /\ UNCHANGED unused

\* Tokens before a flatpak or snap command
MaxPrefix == 2

\* Field codes, assignments and wrapper words
PrefixTokens == {"%U", "VAR=value", "env", "sh", "-c", "bash"}

\* What follows the word flatpak or snap
RunTails == {<<>>, <<"run">>, <<"run", "org.mozilla.firefox">>,
             <<"run", "firefox", "%u">>, <<"run", "%u", "firefox">>,
             <<"org.mozilla.firefox">>}

\* parse_exec_to_path(exec) on host p, for an Exec field with the word
\* flatpak or snap
CallParseExecRun ==
    /\ pure.fn = "none"
    /\ \E p \in OsProfiles : \E prefix \in SeqsUpTo(PrefixTokens, MaxPrefix) :
       \E cmd \in {"flatpak", "snap"} : \E tail \in RunTails :
           LET tokens == prefix \o <<cmd>> \o tail
           IN pure' = [fn |-> "parse_exec_to_path",
                       arg |-> [p |-> p, tokens |-> tokens, exec |-> JoinTokens(tokens)],
                       ret |-> parse_exec_to_path(p, JoinTokens(tokens))]
    /\ UNCHANGED unused

\* Words of a --version output
MaxWords == 3

\* The words --version outputs are made of
VersionWords == {"Chromium", "120.0.6099.109", "12.4,", "v1.2", "7", "3.x-beta", "."}

\* What separates the words, and the lines, of an output
WordSeparators == {" ", "\n", " \n\n\t"}

\* The outputs of the browsers the repository names
VersionExamples ==
    {<<"Mozilla", "Firefox", "120.0">>, <<"Google", "Chrome", "120.0.6099.109">>,
     <<"Chromium", "120.0.6099.109", "built", "on", "Debian", "12.4">>}

\* The words separated by sep, with a line end after the last
RECURSIVE JoinWords(_, _)
JoinWords(words, sep) ==
    IF words = <<>> THEN "\n"
    ELSE IF Len(words) = 1 THEN words[1] \o "\n"
    ELSE words[1] \o sep \o JoinWords(Tail(words), sep)

\* parse_version_string(output)
CallParseVersion ==
    /\ pure.fn = "none"
    /\ \E words \in SeqsUpTo(VersionWords, MaxWords) \cup VersionExamples :
       \E sep \in WordSeparators :
           pure' = [fn |-> "parse_version_string",
                    arg |-> [words |-> words, output |-> JoinWords(words, sep)],
                    ret |-> parse_version_string(JoinWords(words, sep))]
    /\ UNCHANGED unused

\* The four lookups of the registry
LookupKinds == {"id", "bundle_id", "registry_key", "desktop_id"}

\* Keys the table does not hold
MissingKeys == {"", "nonexistent", "Firefox", "com.google", "google-chrome-"}

\* Every identifier of the table, of any kind, and the missing keys
LookupKeys ==
    UNION {{KNOWN_BROWSERS[n].id}
               \cup {KNOWN_BROWSERS[n].macos_bundle_ids[i] :
                         i \in 1..Len(KNOWN_BROWSERS[n].macos_bundle_ids)}
               \cup {KNOWN_BROWSERS[n].windows_registry_keys[i] :
                         i \in 1..Len(KNOWN_BROWSERS[n].windows_registry_keys)}
               \cup {KNOWN_BROWSERS[n].linux_desktop_ids[i] :
                         i \in 1..Len(KNOWN_BROWSERS[n].linux_desktop_ids)} :
           n \in 1..Len(KNOWN_BROWSERS)}
        \cup MissingKeys

\* The lookup of one kind
registry_lookup(kind, key) ==
    CASE kind = "id" -> find_by_id(key)
      [] kind = "bundle_id" -> find_by_bundle_id(key)
      [] kind = "registry_key" -> find_by_registry_key(key)
      [] OTHER -> find_by_desktop_id(key)

\* find_by_id, find_by_bundle_id, find_by_registry_key or find_by_desktop_id
CallLookup ==
    /\ pure.fn = "none"
    /\ \E kind \in LookupKinds : \E key \in LookupKeys :
           pure' = [fn |-> "lookup", arg |-> [kind |-> kind, key |-> key],
                    ret |-> registry_lookup(kind, key)]
    /\ UNCHANGED unused

\* Browser values: every variant, with and without version and bundle_id
SomeBrowsers ==
    {maybe_with_version(
         IF IsSome(bundle_id)
         THEN with_bundle_id(with_variant(BrowserNew(id, "Firefox", executable), variant),
                             Unwrap(bundle_id))
         ELSE with_variant(BrowserNew(id, "Firefox", executable), variant),
         version) :
        id \in {"firefox", ""}, executable \in {"/usr/bin/firefox", ""},
        variant \in BrowserVariant, version \in {None, Some("120.0"), Some("null")},
        bundle_id \in {None, Some("org.mozilla.firefox")}}

\* BrowserVariant::family
CallVariantFamily ==
    /\ pure.fn = "none"
    /\ \E v \in BrowserVariant :
           pure' = [fn |-> "BrowserVariant::family", arg |-> v, ret |-> family(v)]
    /\ UNCHANGED unused

\* Browser::family
CallBrowserFamily ==
    /\ pure.fn = "none"
    /\ \E b \in SomeBrowsers :
           pure' = [fn |-> "Browser::family", arg |-> b, ret |-> BrowserFamilyOf(b)]
    /\ UNCHANGED unused

\* serde_json::to_string then serde_json::from_str, of a BrowserVariant
CallVariantRoundTrip ==
    /\ pure.fn = "none"
    /\ \E v \in BrowserVariant :
           pure' = [fn |-> "BrowserVariant round trip", arg |-> v,
                    ret |-> deserialize_variant(serialize_variant(v))]
    /\ UNCHANGED unused

\* serde_json::to_string then serde_json::from_str, of a Browser
CallBrowserRoundTrip ==
    /\ pure.fn = "none"
    /\ \E b \in SomeBrowsers :
           pure' = [fn |-> "Browser round trip", arg |-> b,
                    ret |-> deserialize_browser(serialize_browser(b))]
    /\ UNCHANGED unused

\* Bound on the number of pieces a drawn path is made of
MaxPieces == 4

\* Path pieces: directories, bundles, and names that hold ".app" without
\* being a bundle
PathPieces ==
    {"Applications", "Foo.app", "Contents/Support", "Bar.app", "Safari.app",
     "my.apps", "Tool.application"}

\* The absolute path made of the pieces
RECURSIVE PathOf(_)
PathOf(pieces) == IF pieces = <<>> THEN "" ELSE "/" \o Head(pieces) \o PathOf(Tail(pieces))

\* is_nested_app
CallIsNestedApp ==
    /\ pure.fn = "none"
    /\ \E pieces \in SeqsUpTo(PathPieces, MaxPieces) :
           /\ pieces # <<>>
           /\ pure' = [fn |-> "is_nested_app", arg |-> PathOf(pieces),
                       ret |-> is_nested_app(PathOf(pieces))]
    /\ UNCHANGED unused

\* Bound on the number of lines of a drawn desktop file
MaxLines == 4

\* Lines of a desktop file: section headers, keys, a comment, a key with
\* spaces around the equals sign
FileLines ==
    {"[Desktop Entry]", "Name=Firefox", "  Exec=firefox %u  ", "[Desktop Action new]",
     "#Name=commented", "Name = spaced"}

\* parse_desktop_file
CallParseDesktopFile ==
    /\ pure.fn = "none"
    /\ \E readable \in BOOLEAN, lines \in SeqsUpTo(FileLines, MaxLines) :
           LET file == [name |-> "drawn.desktop", kind |-> "file",
                        readable |-> readable, lines |-> lines]
           IN pure' = [fn |-> "parse_desktop_file", arg |-> file,
                       ret |-> parse_desktop_file(file)]
    /\ UNCHANGED unused

\* Exec fields of browser descriptors: flatpak and snap commands as the
\* exporters write them and in short form, a command of placeholders only,
\* ordinary commands
BuildExecs ==
    {"flatpak run org.mozilla.firefox %u",
     "/usr/bin/flatpak run --branch=stable --command=firefox org.mozilla.firefox @@u %u @@",
     "env LANG=C flatpak run --branch=stable org.mozilla.firefox",
     "snap run firefox %u",
     "env BAMF_DESKTOP_FILE_HINT=firefox_firefox.desktop /snap/bin/firefox %u",
     "/usr/bin/snap run firefox",
     "%u", "",
     "firefox %u", "/usr/bin/firefox --new-window %u"}

\* build_browser(desktop_id, entry) on host p, with the child processes it
\* launched
CallBuildBrowser ==
    /\ pure.fn = "none"
    /\ \E p \in OsProfiles : \E desktop_id \in {"firefox", "mybrowser"} :
       \E exec \in BuildExecs :
           LET entry == [name |-> Some("Browser"), exec |-> Some(exec),
                         mime_types |-> <<"text/html">>, categories |-> <<>>]
           IN pure' = [fn |-> "build_browser",
                       arg |-> [p |-> p, desktop_id |-> desktop_id, exec |-> exec],
                       ret |-> [browser |-> linux_build_browser(p, desktop_id, entry),
                                spawned |-> linux_build_browser_spawns(p, entry)]]
    /\ UNCHANGED unused

NextPure ==
    \/ CallParseExec
    \/ CallParseExecRun
    \/ CallParseVersion
    \/ CallLookup
    \/ CallBuildBrowser

SpecPure == InitPure /\ [][NextPure]_vars

\* Bound on the number of blocks a drawn desktop file is made of
MaxBlocks == 3

\* Blocks of lines of a desktop file: the main section, an action section
\* with the same keys, list keys with empty items, lines that carry nothing,
\* a bare header, keys on their own
FileBlocks ==
    {<<"[Desktop Entry]", "Name=Firefox", "Exec=firefox %u">>,
     <<"[Desktop Action new-window]", "Name=New Window", "Exec=firefox --new-window",
       "MimeType=text/plain;", "Categories=Utility;">>,
     <<"MimeType=text/html;;x-scheme-handler/http;">>,
     <<"Categories=;Network;WebBrowser">>,
     <<"# Name=commented", "", "Icon=firefox", "NoEqualsSign">>,
     <<"[Desktop Entry]">>,
     <<"Name=Other", "Exec=/usr/bin/other">>}

\* The lines of the blocks, in order
RECURSIVE Flatten(_)
Flatten(blocks) == IF blocks = <<>> THEN <<>> ELSE Head(blocks) \o Flatten(Tail(blocks))

\* parse_desktop_file on a file made of blocks
CallParseBlocks ==
    /\ pure.fn = "none"
    /\ \E blocks \in SeqsUpTo(FileBlocks, MaxBlocks) :
           LET file == [name |-> "drawn.desktop", kind |-> "file",
                        readable |-> TRUE, lines |-> Flatten(blocks)]
           IN pure' = [fn |-> "parse_desktop_file on blocks", arg |-> file,
                       ret |-> parse_desktop_file(file)]
    /\ UNCHANGED unused

\* Values of the user's data home (XDG_DATA_HOME, or its default below the
\* home directory) and home directory
DataHomes == {None, Some("/home/u/.local/share"), Some("/usr/share"),
              Some("/home/u/.local/share/flatpak/exports/share")}

Homes == {None, Some("/home/u")}

\* get_desktop_dirs() for a user's environment on a host where the paths in
\* existing are directories
CallGetDesktopDirs ==
    /\ pure.fn = "none"
    /\ \E data_home \in DataHomes, home \in Homes :
           LET env == [data_home |-> data_home, home |-> home]
           IN \E existing \in SUBSET Range(desktop_dir_candidates(env)) :
                  pure' = [fn |-> "get_desktop_dirs",
                           arg |-> [env |-> env, existing |-> existing],
                           ret |-> get_desktop_dirs(env, existing)]
    /\ UNCHANGED unused

\* ------------------------------------------------------------------------
\* One set of descriptor files enumerated in two orders
\* ------------------------------------------------------------------------
\* The browser descriptors of the catalogue
BrowserKeys == {k \in CatalogueKeys : Catalogue[k].kind = "browser"}

\* The orders in which a directory walk can yield n files
Orders(n) == {perm \in [1..n -> 1..n] : \A i, j \in 1..n : i # j => perm[i] # perm[j]}

\* detect_browsers (Linux) on host p, on the same files read in two orders
CallDetectInTwoOrders ==
    /\ pure.fn = "none"
    /\ \E p \in OsProfiles : \E keys \in SeqsUpTo(BrowserKeys, MaxEntries) :
       \E perm \in Orders(Len(keys)) :
           /\ \A i, j \in 1..Len(keys) : i # j => keys[i] # keys[j]
           /\ pure' = [fn |-> "detect_browsers in two orders",
                       arg |-> [p |-> p, keys |-> keys, perm |-> perm],
                       ret |-> [first |-> linux_detect_browsers(p, keys),
                                second |-> linux_detect_browsers(
                                               p, [i \in 1..Len(keys) |-> keys[perm[i]]])]]
    /\ UNCHANGED unused

NextOrder ==
    \/ CallDetectInTwoOrders

SpecOrder == InitPure /\ [][NextOrder]_vars

\* The value types, the nested-bundle filter and the descriptor parser
NextTypes ==
    \/ CallVariantFamily
    \/ CallBrowserFamily
    \/ CallVariantRoundTrip
    \/ CallBrowserRoundTrip
    \/ CallIsNestedApp
    \/ CallParseDesktopFile
    \/ CallParseBlocks
    \/ CallGetDesktopDirs

SpecTypes == InitPure /\ [][NextTypes]_vars

\* A token the Exec scan passes over: a field code, an assignment or a
\* wrapper word
IsSkippedToken(t) ==
    StartsWith(t, "%") \/ Contains(t, "=") \/ t \in {"env", "sh", "-c", "bash"}

\* Token i opens a `flatpak run` or `snap run` command
IsRunCommandAt(tokens, i) ==
    tokens[i] \in {"flatpak", "snap"} /\ i < Len(tokens) /\ tokens[i + 1] = "run"

\* What the search of the executable search path gives for a token on host p
SearchPath(p, t) ==
    LET which == WhichOutcome(p, t)
    IN IF which.started /\ which.success /\ Trim(which.stdout) # ""
       THEN Some(Trim(which.stdout)) ELSE None

\* The executable a token determines: itself when it is an absolute path,
\* else what the search gives, else itself
ExecutableOfToken(p, t) ==
    IF StartsWith(t, "/") THEN t
    ELSE IF IsSome(SearchPath(p, t)) THEN Unwrap(SearchPath(p, t))
    ELSE t

\* C11 as stated: after the field codes, assignments and wrapper words, the
\* first remaining token (one that opens no flatpak or snap run command)
\* gives the executable: itself if absolute, else the result of the path
\* search, else the bare token.
FirstRemainingTokenDecides ==
    pure.fn = "parse_exec_to_path" =>
        LET tokens == pure.arg.tokens
            remaining == {i \in 1..Len(tokens) : ~IsSkippedToken(tokens[i])}
        IN (remaining # {} /\ ~IsRunCommandAt(tokens, Least(remaining)))
               => pure.ret = Some(ExecutableOfToken(pure.arg.p, tokens[Least(remaining)]))

\* C11, amended: as stated, except that a remaining token that starts with
\* '-' and is not found on the search path is passed over as well; nothing
\* is returned when every token is passed over.
FirstCommandTokenDecides ==
    pure.fn = "parse_exec_to_path" =>
        LET tokens == pure.arg.tokens
            command == {i \in 1..Len(tokens) :
                            /\ ~IsSkippedToken(tokens[i])
                            /\ ~(StartsWith(tokens[i], "-")
                                    /\ IsNone(SearchPath(pure.arg.p, tokens[i])))}
        IN IF command = {} THEN pure.ret = None
           ELSE ~IsRunCommandAt(tokens, Least(command))
                    => pure.ret = Some(ExecutableOfToken(pure.arg.p, tokens[Least(command)]))

\* 'env VAR=value /usr/bin/browser %U' was resolved to /usr/bin/browser
FirstCommandTokenDecidesWitness ==
    /\ pure.fn = "parse_exec_to_path"
    /\ pure.arg.exec = "env VAR=value /usr/bin/browser %U"
    /\ pure.ret = Some("/usr/bin/browser")

\* C12: when, after field codes, assignments and wrapper words only, the
\* Exec field goes on with `flatpak run X`, the executable is a path that
\* contains "flatpak" and X; when it goes on with `snap run X`, the
\* executable is /snap/bin/X.
RunCommandsResolve ==
    pure.fn = "parse_exec_to_path" =>
        \A i \in 1..(Len(pure.arg.tokens) - 2) :
            LET tokens == pure.arg.tokens
            IN (/\ \A j \in 1..(i - 1) : IsSkippedToken(tokens[j])
                /\ tokens[i + 1] = "run")
                   => /\ tokens[i] = "flatpak"
                          => /\ pure.ret # None
                             /\ Contains(Unwrap(pure.ret), "flatpak")
                             /\ Contains(Unwrap(pure.ret), tokens[i + 2])
                      /\ tokens[i] = "snap"
                          => pure.ret = Some("/snap/bin/" \o tokens[i + 2])

\* 'sh -c flatpak run org.mozilla.firefox' was resolved
RunCommandsResolveWitness ==
    /\ pure.fn = "parse_exec_to_path"
    /\ pure.arg.exec = "sh -c flatpak run org.mozilla.firefox"
    /\ pure.ret = Some("/usr/bin/flatpak run org.mozilla.firefox")

\* A token that begins with an ASCII digit and contains a '.'
LooksLikeVersion(w) == w # "" /\ IsAsciiDigit(CharAt(w, 1)) /\ Contains(w, ".")

\* w without its trailing characters that are neither digits nor dots: the
\* prefix of w behind which only such characters stand and that does not end
\* in one
WithoutTrailingPunctuation(w) ==
    LET is_version_char(i) == IsAsciiDigit(CharAt(w, i)) \/ CharAt(w, i) = "."
        k == CHOOSE n \in 0..Len(w) :
                 /\ \A i \in (n + 1)..Len(w) : ~is_version_char(i)
                 /\ n > 0 => is_version_char(n)
    IN SubSeq(w, 1, k)

\* C13: parse_version_string returns the first token of the output, lines
\* top to bottom and tokens left to right, that begins with an ASCII digit
\* and contains a '.', less its trailing characters that are neither digits
\* nor dots; it returns nothing when no token is of that form.
FirstVersionToken ==
    pure.fn = "parse_version_string" =>
        LET words == pure.arg.words
            hits == {i \in 1..Len(words) : LooksLikeVersion(words[i])}
        IN IF hits = {} THEN pure.ret = None
           ELSE pure.ret = Some(WithoutTrailingPunctuation(words[Least(hits)]))

\* 'Chromium 120.0.6099.109 built on Debian 12.4' gave 120.0.6099.109
FirstVersionTokenWitness ==
    /\ pure.fn = "parse_version_string"
    /\ pure.arg.output = "Chromium 120.0.6099.109 built on Debian 12.4\n"
    /\ pure.ret = Some("120.0.6099.109")

\* The identifiers of one kind an entry of the table lists
IdentifiersOf(meta, kind) ==
    CASE kind = "id" -> {meta.id}
      [] kind = "bundle_id" ->
            {meta.macos_bundle_ids[i] : i \in 1..Len(meta.macos_bundle_ids)}
      [] kind = "registry_key" ->
            {meta.windows_registry_keys[i] : i \in 1..Len(meta.windows_registry_keys)}
      [] OTHER -> {meta.linux_desktop_ids[i] : i \in 1..Len(meta.linux_desktop_ids)}

\* C14: each of the four lookups returns the first entry, in the order of
\* the table, that holds the key as an identifier of the lookup's kind, and
\* nothing when no entry holds it.
LookupReturnsFirstMatch ==
    pure.fn = "lookup" =>
        LET hits == {n \in 1..Len(KNOWN_BROWSERS) :
                         pure.arg.key \in IdentifiersOf(KNOWN_BROWSERS[n], pure.arg.kind)}
        IN IF hits = {} THEN pure.ret = None
           ELSE pure.ret = Some(KNOWN_BROWSERS[Least(hits)])

\* A lookup by bundle id of a key the table holds as a desktop id only, or
\* not at all, returned nothing
LookupReturnsFirstMatchWitness ==
    /\ pure.fn = "lookup" /\ pure.arg.kind = "bundle_id"
    /\ pure.arg.key = "com.google"
    /\ pure.ret = None

\* No two entries of the table list the same identifier under one kind
NoSharedIdentifier ==
    \A kind \in LookupKinds \ {"id"} : \A n, m \in 1..Len(KNOWN_BROWSERS) :
        n # m => IdentifiersOf(KNOWN_BROWSERS[n], kind)
                     \cap IdentifiersOf(KNOWN_BROWSERS[m], kind) = {}

\* C15: the lookup of a platform identifier returns every entry that lists
\* it under that kind: all aliases of an entry resolve to that entry, and no
\* identifier is listed under two entries of the same kind.
AliasesResolveToTheirEntry ==
    /\ pure.fn = "lookup" /\ pure.arg.kind # "id" =>
           \A n \in 1..Len(KNOWN_BROWSERS) :
               pure.arg.key \in IdentifiersOf(KNOWN_BROWSERS[n], pure.arg.kind)
                   => pure.ret = Some(KNOWN_BROWSERS[n])
    /\ NoSharedIdentifier

\* google-chrome-stable, the second desktop id of its entry, resolved to chrome
AliasesResolveToTheirEntryWitness ==
    /\ pure.fn = "lookup" /\ pure.arg.kind = "desktop_id"
    /\ pure.arg.key = "google-chrome-stable"
    /\ pure.ret # None
    /\ Unwrap(pure.ret).id = "chrome"
    /\ Unwrap(pure.ret) = Unwrap(find_by_desktop_id("google-chrome"))

\* The ids of the table are pairwise distinct
DistinctIds ==
    \A n, m \in 1..Len(KNOWN_BROWSERS) :
        n # m => KNOWN_BROWSERS[n].id # KNOWN_BROWSERS[m].id

\* C16: the ids of the table are pairwise distinct, and find_by_id of the id
\* of an entry returns that entry.
CanonicalIdsAreUnique ==
    /\ DistinctIds
    /\ pure.fn = "lookup" /\ pure.arg.kind = "id" =>
           \A n \in 1..Len(KNOWN_BROWSERS) :
               pure.arg.key = KNOWN_BROWSERS[n].id => pure.ret = Some(KNOWN_BROWSERS[n])

\* find_by_id of chrome-beta, whose id begins with the id of an earlier
\* entry, returned the entry of chrome-beta
CanonicalIdsAreUniqueWitness ==
    /\ pure.fn = "lookup" /\ pure.arg.kind = "id"
    /\ pure.arg.key = "chrome-beta"
    /\ pure.ret # None
    /\ Unwrap(pure.ret).name = "Google Chrome Beta"

\* The family the tag of a variant names: the tag itself, or the payload of
\* Single
FamilyByTag(v) == IF v.type = "Single" THEN v.value ELSE v.type

\* C17: family is defined on every BrowserVariant and gives Chromium for
\* Chromium(c), Firefox for Firefox(c), WebKit for WebKit(c) and f for
\* Single(f); the family of a Browser is the family of its variant, and a
\* Browser has no family field of its own.
FamilyMatchesTag ==
    /\ pure.fn = "BrowserVariant::family" =>
           /\ pure.ret \in BrowserFamily
           /\ pure.ret = FamilyByTag(pure.arg)
    /\ pure.fn = "Browser::family" =>
           /\ pure.ret = FamilyByTag(pure.arg.variant)
           /\ "family" \notin DOMAIN pure.arg

\* family of Single(Chromium) was computed, as Chromium
FamilyMatchesTagWitness ==
    /\ pure.fn = "BrowserVariant::family"
    /\ pure.arg = [type |-> "Single", value |-> "Chromium"]
    /\ pure.ret = "Chromium"

AppSegments(segments) == {i \in 1..Len(segments) : Contains(segments[i], ".app")}

BundleSegments(segments) == {i \in 1..Len(segments) : EndsWith(segments[i], ".app")}

\* A bundle segment comes before the last segment that holds ".app"
EarlierBundle(segments) ==
    \E final \in AppSegments(segments) :
        /\ \A j \in AppSegments(segments) : j <= final
        /\ \E i \in BundleSegments(segments) : i < final

\* C19: a path is rejected as nested exactly when a bundle segment (one
\* ending in ".app", followed by "/") comes before its final ".app" segment;
\* a path ending in ".app" after a prefix without ".app" is accepted.
NestedIffEarlierBundle ==
    pure.fn = "is_nested_app" =>
        /\ pure.ret <=> EarlierBundle(Split(pure.arg, "/"))
        /\ (/\ EndsWith(pure.arg, ".app")
            /\ ~Contains(SubSeq(pure.arg, 1, Len(pure.arg) - 4), ".app")) => ~pure.ret

\* /Applications/Foo.app/Contents/Support/Bar.app was found nested
NestedIffEarlierBundleWitness ==
    /\ pure.fn = "is_nested_app"
    /\ pure.arg = "/Applications/Foo.app/Contents/Support/Bar.app"
    /\ pure.ret

\* Line i of the file lies in a [Desktop Entry] section
InDesktopEntry(lines, i) ==
    \E h \in 1..(i - 1) :
        /\ Trim(lines[h]) = "[Desktop Entry]"
        /\ \A k \in (h + 1)..i : ~StartsWith(Trim(lines[k]), "[")

\* The [Desktop Entry] section of the file supplies the key
Supplies(lines, key) ==
    \E i \in 1..Len(lines) :
        InDesktopEntry(lines, i) /\ StartsWith(Trim(lines[i]), key \o "=")

\* C20: parse_desktop_file yields an entry exactly when the file is readable
\* and its [Desktop Entry] section supplies both Name and Exec; a file
\* without both is rejected, and an accepted entry has a name and an exec.
EntryIffNameAndExec ==
    pure.fn = "parse_desktop_file" =>
        LET file == pure.arg
        IN /\ IsSome(pure.ret) <=>
                  /\ file.readable
                  /\ Supplies(file.lines, "Name")
                  /\ Supplies(file.lines, "Exec")
           /\ (~Supplies(file.lines, "Name") /\ ~Supplies(file.lines, "Exec")) =>
                  IsNone(pure.ret)
           /\ IsSome(pure.ret) =>
                  IsSome(Unwrap(pure.ret).name) /\ IsSome(Unwrap(pure.ret).exec)

\* A readable file with a Name and no Exec in its section was rejected
EntryIffNameAndExecWitness ==
    /\ pure.fn = "parse_desktop_file"
    /\ pure.arg.readable
    /\ pure.arg.lines = <<"[Desktop Entry]", "Name=Firefox", "[Desktop Action new]",
                          "  Exec=firefox %u  ">>
    /\ pure.ret = None

\* The value of the last line of the [Desktop Entry] section that sets the key
LastValue(lines, key) ==
    LET setting == {i \in 1..Len(lines) :
                        /\ InDesktopEntry(lines, i)
                        /\ StartsWith(Trim(lines[i]), key \o "=")}
        last == CHOOSE i \in setting : \A j \in setting : j <= i
    IN IF setting = {} THEN None
       ELSE Some(SubSeq(Trim(lines[last]), Len(key) + 2, Len(Trim(lines[last]))))

\* The items of a ';'-separated list: its maximal non-empty runs without ';'
Items(value) ==
    LET starts == {i \in 1..Len(value) :
                       /\ CharAt(value, i) # ";"
                       /\ i = 1 \/ CharAt(value, i - 1) = ";"}
        start(k) == CHOOSE s \in starts : Cardinality({t \in starts : t < s}) = k - 1
        end(s) == CHOOSE j \in s..Len(value) :
                      /\ \A m \in s..j : CharAt(value, m) # ";"
                      /\ j = Len(value) \/ CharAt(value, j + 1) = ";"
    IN [k \in 1..Cardinality(starts) |-> SubSeq(value, start(k), end(start(k)))]

\* The items of the list the key sets, none when the key is not set
ItemsOf(lines, key) ==
    IF IsSome(LastValue(lines, key)) THEN Items(Unwrap(LastValue(lines, key))) ELSE <<>>

\* C21: the parsed entry is made of the Name, Exec, MimeType and Categories
\* lines of [Desktop Entry] sections alone: the same keys in another section,
\* unknown keys, comments and blank lines change nothing, and MimeType and
\* Categories are split on ';' with empty items dropped.
OnlyDesktopEntryKeysCount ==
    pure.fn = "parse_desktop_file on blocks" =>
        LET lines == pure.arg.lines
            entry == [name |-> LastValue(lines, "Name"),
                      exec |-> LastValue(lines, "Exec"),
                      mime_types |-> ItemsOf(lines, "MimeType"),
                      categories |-> ItemsOf(lines, "Categories")]
        IN pure.ret = IF IsSome(entry.name) /\ IsSome(entry.exec) THEN Some(entry) ELSE None

\* A file whose main section is followed by a MimeType list with empty items
\* and by an action section with its own Name, Exec and MimeType was parsed
OnlyDesktopEntryKeysCountWitness ==
    /\ pure.fn = "parse_desktop_file on blocks"
    /\ Len(pure.arg.lines) = 9
    /\ pure.arg.lines[5] = "[Desktop Action new-window]"
    /\ pure.ret = Some([name |-> Some("Firefox"), exec |-> Some("firefox %u"),
                        mime_types |-> <<"text/html", "x-scheme-handler/http">>,
                        categories |-> <<>>])

\* The browser descriptors of the catalogue whose Exec resolves to no
\* executable on a host
UnresolvableKeys ==
    [p \in OsProfiles |->
        {k \in CatalogueKeys :
            /\ Catalogue[k].kind = "browser"
            /\ parse_exec_to_path(p, Unwrap(Unwrap(parse_desktop_file(Catalogue[k])).exec))
                   = None}]

\* The browser descriptors read that resolve to no executable
Unresolvable == {n \in 1..Len(scanned) : scanned[n] \in UnresolvableKeys[profile]}

\* The list without the browsers whose id is that of an unresolvable
\* descriptor read
OtherIds(list) ==
    SelectSeq(list, LAMBDA b : \A n \in Unresolvable : b.id # ScannedBrowser(n).id)

\* The browser descriptors read, without those whose id is that of an
\* unresolvable one
OtherScanned ==
    SelectSeq(scanned,
              LAMBDA k : \A n \in Unresolvable :
                             Unwrap(EntryBrowsers[profile][k]).id # ScannedBrowser(n).id)

\* C22 as stated: a browser descriptor whose Exec resolves to no executable
\* is skipped, so the list Linux detect_browsers returns holds no browser
\* built from one.
UnresolvableIsSkipped ==
    (platform = "linux" /\ pc = "listed") =>
        \A n \in Unresolvable : ScannedBrowser(n) \notin Range(browsers)

\* C22: a browser descriptor whose Exec resolves to no executable is not
\* skipped: unless a descriptor with the same id was read before it, the
\* list Linux detect_browsers returns holds its browser, with an empty
\* executable and no version; the browsers with other ids are those the scan
\* gives without it.
UnresolvableIsListedEmpty ==
    (platform = "linux" /\ pc = "listed") =>
        /\ \A n \in Unresolvable :
               /\ ScannedBrowser(n).executable = ""
               /\ ScannedBrowser(n).version = None
               /\ FirstWithSameId(n) = n => ScannedBrowser(n) \in Range(browsers)
        /\ OtherIds(browsers) = linux_detect_browsers(profile, OtherScanned)

\* A scan read an unresolvable descriptor first and a browser with another
\* id after it, and returned both
UnresolvableIsListedEmptyWitness ==
    /\ platform = "linux" /\ pc = "listed"
    /\ Len(scanned) >= 2 /\ 1 \in Unresolvable
    /\ Len(browsers) >= 2 /\ browsers[1].executable = "" /\ browsers[2].executable # ""

\* The Exec field is a `flatpak run` or `snap run` invocation: after the
\* placeholders, assignments and wrapper words, it names flatpak or snap, by
\* word or by path, followed by run
IsRunInvocation(exec) ==
    LET tokens == SplitWhitespace(exec)
    IN \E i \in 1..(Len(tokens) - 1) :
           /\ \A j \in 1..(i - 1) : IsSkippedToken(tokens[j])
           /\ tokens[i] \in {"flatpak", "snap", "/usr/bin/flatpak", "/usr/bin/snap"}
           /\ tokens[i + 1] = "run"

\* C23 as stated: for a browser whose Exec is a flatpak run or snap run
\* invocation, and for one whose executable path is empty, no --version
\* child process is launched and the version is absent.
NoVersionForFlatpakOrSnap ==
    (/\ pure.fn = "build_browser"
     /\ IsRunInvocation(pure.arg.exec) \/ pure.ret.browser.executable = "") =>
        /\ \A i \in 1..Len(pure.ret.spawned) : pure.ret.spawned[i].args # <<"--version">>
        /\ pure.ret.browser.version = None

\* C24 as stated: the list of Linux search directories holds only
\* directories that exist and never the same directory twice, whatever the
\* user's data home and home directory are.
SearchDirsExistOnce ==
    pure.fn = "get_desktop_dirs" =>
        /\ \A i \in 1..Len(pure.ret) : pure.ret[i] \in pure.arg.existing
        /\ \A i, j \in 1..Len(pure.ret) : i # j => pure.ret[i] # pure.ret[j]

\* The applications of the host whose location resolves to a path, and
\* those among them that lie inside another bundle
LocatedApps == {b \in MacBundleIds : IsSome(get_application_path(b))}

NestedApps ==
    {b \in LocatedApps : EarlierBundle(Split(Unwrap(get_application_path(b)), "/"))}

\* C25: no browser of macOS detect_browsers or detect_default_browser comes
\* from a nested application path; the list holds the browsers of exactly
\* the handlers whose location resolves and is not nested, in order (the
\* others are skipped and nothing else happens); a default handler that is
\* nested or has no location gives no default, and a default that is
\* reported is the handler's own application.
NoNestedApplication ==
    platform = "macos" =>
        /\ \A i \in 1..Len(browsers) :
               Unwrap(browsers[i].bundle_id) \in LocatedApps \ NestedApps
        /\ [i \in 1..Len(browsers) |-> Unwrap(browsers[i].bundle_id)]
               = SelectSeq(scanned, LAMBDA b : b \in LocatedApps \ NestedApps)
        /\ (result.fn = "detect_default_browser" /\ IsSome(result.handler)) =>
               IF Unwrap(result.handler) \in LocatedApps \ NestedApps
               THEN /\ IsSome(result.value)
                    /\ Unwrap(result.value).bundle_id = result.handler
               ELSE result.value = None

\* detect_browsers went through a nested handler and one without a location
\* and listed a third; then the nested one, as default handler, gave no default
NoNestedApplicationWitness ==
    /\ platform = "macos" /\ pc = "returned"
    /\ scanned = <<"com.example.Helper", "org.gone.Browser", "com.apple.Safari">>
    /\ Len(browsers) = 1
    /\ result.fn = "detect_default_browser"
    /\ result.handler = Some("com.example.Helper")
    /\ result.value = None

\* The string the manifest of an application provides under a key: none
\* when the manifest cannot be read, has no such key, or holds a value there
\* that is no string
Provided(bundle_id, key) ==
    LET plist == MacApps[bundle_id].plist
    IN IF IsNone(plist) THEN None
       ELSE IF IsNone(Unwrap(plist)[key]) THEN None
       ELSE IF ~Unwrap(Unwrap(plist)[key]).is_string THEN None
       ELSE Some(Unwrap(Unwrap(plist)[key]).text)

\* The first of the options that holds a value
RECURSIVE FirstSome(_)
FirstSome(options) ==
    IF options = <<>> THEN None
    ELSE IF IsSome(Head(options)) THEN Head(options)
    ELSE FirstSome(Tail(options))

\* The name the four-step fallback gives an application
FallbackName ==
    [b \in MacBundleIds |->
        Unwrap(FirstSome(<<Provided(b, "CFBundleDisplayName"),
                           Provided(b, "CFBundleName"),
                           Some(Split(b, ".")[Len(Split(b, "."))]),
                           Some(b)>>))]

\* C26 as stated: a macOS browser with no registry match is named by the
\* first of these that yields a name: the manifest's display name, the
\* manifest's internal name, the last dot-separated segment of the
\* identifier, the raw identifier.
NameByFourStepFallback ==
    platform = "macos" =>
        \A i \in 1..Len(browsers) :
            IsNone(find_by_bundle_id(Unwrap(browsers[i].bundle_id))) =>
                browsers[i].name = FallbackName[Unwrap(browsers[i].bundle_id)]

\* The version the two-key fallback gives an application
FallbackVersion ==
    [b \in MacBundleIds |->
        FirstSome(<<Provided(b, "CFBundleShortVersionString"),
                    Provided(b, "CFBundleVersion")>>)]

\* C27 as stated: the version of a macOS browser is the manifest's
\* CFBundleShortVersionString when that provides a string, otherwise its
\* CFBundleVersion, and absent only when neither provides one.
VersionByTwoKeyFallback ==
    platform = "macos" =>
        \A i \in 1..Len(browsers) :
            browsers[i].version = FallbackVersion[Unwrap(browsers[i].bundle_id)]

\* C28 as stated: every browser in a detector's list whose id is a canonical
\* id of the registry carries that entry's name and variant, so that no
\* browser built from an identifier unknown to the registry has the id of a
\* known one.
CanonicalIdMeansRegistryEntry ==
    \A i \in 1..Len(browsers) :
        IsSome(find_by_id(browsers[i].id)) =>
            /\ browsers[i].name = Unwrap(find_by_id(browsers[i].id)).name
            /\ browsers[i].variant = Unwrap(find_by_id(browsers[i].id)).variant

\* The child processes of the descriptors read from position n on that are
\* the first with their id
RECURSIVE SpawnsOfListed(_)
SpawnsOfListed(n) ==
    IF n > Len(scanned) THEN <<>>
    ELSE (IF FirstWithSameId(n) = n THEN EntrySpawns[profile][scanned[n]] ELSE <<>>)
             \o SpawnsOfListed(n + 1)

\* C29 as stated: in a Linux detect_browsers call the child processes
\* launched (search-path lookups and --version runs) are those of the
\* descriptors that end up in the list; a descriptor skipped as a duplicate
\* of an id already seen launches none.
DuplicatesLaunchNothing ==
    platform = "linux" => spawned = SpawnsOfListed(1)

\* The ids of the browsers of a list
IdsOf(list) == {list[i].id : i \in 1..Len(list)}

====
